---- MODULE Spec2Model ----
(***************************************************************************)
(* Model of the chainHead pinned-block subscription registry               *)
(* (substrate/client/rpc-spec-v2/src/chain_head/subscription/inner.rs).    *)
(*                                                                         *)
(* Every public entry point of SubscriptionsInner runs under one lock, so  *)
(* each call is one atomic action.  The handlers are written as operators  *)
(* on a record `st` holding the whole state (registry, backend, the heap   *)
(* objects shared through Arc, the live guards); an action applies the     *)
(* operator to the current state.                                          *)
(*                                                                         *)
(* The block import loop of the informant                                  *)
(* (substrate/client/informant/src/lib.rs) is a separate task with its own *)
(* state; each import notification it handles is one action.               *)
(***************************************************************************)
EXTENDS Integers, Sequences, FiniteSets, TLC

\* ---------------------------------------------------------------- bounds
MaxTime == 1            \* the clock runs over 0..MaxTime
MaxArcs == 2            \* Operations objects alive at once (in a subscription or a guard)
MaxOperationId == 2     \* cap of the next_operation_id counter
MaxOngoing == 2         \* configured max_ongoing_operations
PinDuration == 0        \* configured local_max_pin_duration, in clock ticks
PermitBits == 3         \* width of the permit count of one acquire, scaled down from 32
MaxSubsPerConnection == 2   \* the quota of RpcConnections, as in the tests
MaxBlocksToTrack == 2       \* max_blocks_to_track of the informant, scaled down from 100
MaxNumber == 2              \* block numbers of the import notifications: 1..MaxNumber

SubIds == {"abc", "abcd"}       \* the subscription ids of the tests
Hashes == {"h1", "h2"}          \* block hashes
RuntimeFlags == {TRUE}          \* with_runtime as passed by the tests
OpsSubIds == {"abc"}
OpsHashes == {"h1"}
Connections == {1, 2}           \* connection ids
ImportedHashes == {"b1", "b2", "b3", "b4"}  \* hashes of the imported blocks
\* The caps: from none to one that the hashes in use cannot reach.
Caps == 0..Cardinality(Hashes)
\* unpin_blocks is called with lists of up to as many hashes as are in use:
\* with or without a repeated hash, held or not.
MaxUnpinLen == Cardinality(Hashes)

VARIABLES
    global_blocks,            \* SubscriptionsInner::global_blocks : hash -> refcount
    subs,                     \* SubscriptionsInner::subs : sub_id -> SubscriptionState
    global_max_pinned_blocks, \* configuration
    local_max_pin_duration,   \* configuration
    max_ongoing_operations,   \* configuration
    backend,                  \* outstanding pins of the backend, per hash
    semaphore,                \* Arc<Semaphore> of each Operations: free permits
    operations,               \* SharedOperations of each Operations: ids in the ledger
    rx_stop,                  \* oneshot receiver of each subscription: signals sent
    guards,                   \* the live BlockGuard objects
    awaiting,                 \* the tasks in StopHandle::stopped(): <<arc, operation id>>
    reservations,             \* the live reservation objects of the facade
    last_best,                \* informant: the (number, hash) of the last best block
    last_blocks,              \* informant: VecDeque of the hashes seen at import
    logged,                   \* informant: the lines logged for the last notification
    now                       \* Instant::now()

vars == <<global_blocks, subs, global_max_pinned_blocks, local_max_pin_duration,
          max_ongoing_operations, backend, semaphore, operations, rx_stop,
          guards, awaiting, reservations, last_best, last_blocks, logged, now>>

config == <<global_max_pinned_blocks, local_max_pin_duration, max_ongoing_operations>>

informant == <<last_best, last_blocks, logged>>

registry == <<global_blocks, subs, backend, semaphore, operations, rx_stop,
              guards, awaiting, reservations, now>>

\* ------------------------------------------------------------ map helpers
Remove(f, k) == [x \in DOMAIN f \ {k} |-> f[x]]
Put(f, k, v) == [x \in DOMAIN f \cup {k} |-> IF x = k THEN v ELSE f[x]]
EmptyMap == [x \in {} |-> 0]
Min(a, b) == IF a <= b THEN a ELSE b

\* ---------------------------------------------------- BlockStateMachine
BlockStates == {"Registered", "FullyRegistered", "Unpinned", "FullyUnpinned"}

BlockStateMachine_new == "Registered"

\* advance_register counting every announcement: the third one starts over.
advance_register_wrapping(s) ==
    CASE s = "Registered" -> "FullyRegistered"
      [] s = "FullyRegistered" -> "Registered"
      [] s = "Unpinned" -> "FullyUnpinned"
      [] OTHER -> s

\* advance_register without the edge from Unpinned to FullyUnpinned.
advance_register_no_unpinned_edge(s) ==
    CASE s = "Registered" -> "FullyRegistered"
      [] OTHER -> s

advance_register(s) ==
    CASE s = "Registered" -> "FullyRegistered"
      [] s = "Unpinned" -> "FullyUnpinned"
      [] OTHER -> s

\* advance_unpin without the edge from FullyRegistered.
advance_unpin_registered_only(s) ==
    CASE s = "Registered" -> "Unpinned"
      [] OTHER -> s

advance_unpin(s) ==
    CASE s = "Registered" -> "Unpinned"
      [] s = "FullyRegistered" -> "FullyUnpinned"
      [] OTHER -> s

was_unpinned(s) ==
    CASE s = "Unpinned" -> TRUE
      [] s = "FullyUnpinned" -> TRUE
      [] OTHER -> FALSE

\* ---------------------------------------------------- SubscriptionState
\* A subscription is a record
\*   [with_runtime, tx_stop, next_operation_id, arc, blocks]
\* tx_stop is TRUE while the Option holds the sender; arc identifies the
\* semaphore, the shared ledger and the stop channel built with the object.

\* register_block keeping the entry that reached FullyUnpinned.
register_block_keep(sub, hash, t) ==
    IF hash \in DOMAIN sub.blocks
    THEN [sub |-> [sub EXCEPT !.blocks[hash].state_machine = advance_register(@)],
          res |-> FALSE]
    ELSE [sub |-> [sub EXCEPT !.blocks =
                     Put(@, hash, [state_machine |-> BlockStateMachine_new,
                                   timestamp |-> t])],
          res |-> TRUE]

\* register_block: the new blocks map and the returned flag.
register_block(sub, hash, t) ==
    IF hash \in DOMAIN sub.blocks
    THEN LET s == advance_register(sub.blocks[hash].state_machine)
         IN [sub |-> [sub EXCEPT !.blocks =
                        IF s = "FullyUnpinned"
                        THEN Remove(@, hash)
                        ELSE [@ EXCEPT ![hash].state_machine = s]],
             res |-> FALSE]
    ELSE [sub |-> [sub EXCEPT !.blocks =
                     Put(@, hash, [state_machine |-> BlockStateMachine_new,
                                   timestamp |-> t])],
          res |-> TRUE]

\* unregister_block leaving the entry that reached FullyUnpinned in the map.
unregister_block_keep(sub, hash) ==
    IF hash \in DOMAIN sub.blocks
    THEN IF was_unpinned(sub.blocks[hash].state_machine)
         THEN [sub |-> sub, res |-> FALSE]
         ELSE [sub |-> [sub EXCEPT !.blocks[hash].state_machine = advance_unpin(@)],
               res |-> TRUE]
    ELSE [sub |-> sub, res |-> FALSE]

unregister_block(sub, hash) ==
    IF hash \in DOMAIN sub.blocks
    THEN IF was_unpinned(sub.blocks[hash].state_machine)
         THEN [sub |-> sub, res |-> FALSE]
         ELSE LET s == advance_unpin(sub.blocks[hash].state_machine)
              IN [sub |-> [sub EXCEPT !.blocks =
                             IF s = "FullyUnpinned"
                             THEN Remove(@, hash)
                             ELSE [@ EXCEPT ![hash].state_machine = s]],
                  res |-> TRUE]
    ELSE [sub |-> sub, res |-> FALSE]

\* contains_block looking at the presence of the entry only.
contains_block_any_entry(sub, hash) == hash \in DOMAIN sub.blocks

contains_block(sub, hash) ==
    IF hash \notin DOMAIN sub.blocks
    THEN FALSE
    ELSE ~was_unpinned(sub.blocks[hash].state_machine)

RECURSIVE MinTimestamp(_, _, _)
MinTimestamp(blocks, todo, acc) ==
    IF todo = {} THEN acc
    ELSE LET h == CHOOSE x \in todo : TRUE
         IN MinTimestamp(blocks, todo \ {h}, Min(acc, blocks[h].timestamp))

\* find_oldest_block_timestamp looking only at the blocks the subscription
\* still holds.
find_oldest_block_timestamp_held_only(sub, t) ==
    MinTimestamp(sub.blocks,
                 {h \in DOMAIN sub.blocks : ~was_unpinned(sub.blocks[h].state_machine)},
                 t)

\* find_oldest_block_timestamp: t is the value its own Instant::now() reads.
find_oldest_block_timestamp(sub, t) ==
    MinTimestamp(sub.blocks, DOMAIN sub.blocks, t)

\* ------------------------------------------------------------ the state
\* The whole mutable state as one record, the argument of every handler.
\* Its field calls counts the backend calls a handler makes: a handler is
\* entered with no call made, and the count is not part of the state.
NoCalls == [pin |-> [h \in Hashes |-> 0], unpin |-> [h \in Hashes |-> 0]]

Entry ==
    [global_blocks |-> global_blocks, subs |-> subs, backend |-> backend,
     semaphore |-> semaphore, operations |-> operations, rx_stop |-> rx_stop,
     guards |-> guards, awaiting |-> awaiting, reservations |-> reservations,
     now |-> now, calls |-> NoCalls]

\* ------------------------------------------------------------- Backend
\* backend[h] is the number of outstanding pins of h: the successful
\* pin_block(h) calls minus the unpin_block(h) calls.  pin_block may fail.
backend_pin_block(st, hash, ok) ==
    [st EXCEPT !.calls.pin[hash] = @ + 1,
               !.backend[hash] = IF ok THEN @ + 1 ELSE @]

backend_unpin_block(st, hash) ==
    [st EXCEPT !.calls.unpin[hash] = @ + 1,
               !.backend[hash] = @ - 1]

\* --------------------------------------------------- SubscriptionsInner
\* A stop that sends whenever it is called.
stop_resending(st, sub) ==
    [st |-> [st EXCEPT !.rx_stop[sub.arc] = @ + 1], sub |-> sub]

\* SubscriptionState::stop, on the subscription sub already taken out of
\* (or still in) the map: the signal is sent while tx_stop holds the sender,
\* which take() removes.  Returns the heap and the subscription after it.
stop(st, sub) ==
    IF sub.tx_stop
    THEN [st |-> [st EXCEPT !.rx_stop[sub.arc] = @ + 1],
          sub |-> [sub EXCEPT !.tx_stop = FALSE]]
    ELSE [st |-> st, sub |-> sub]

global_register_block(st, hash, ok) ==
    IF hash \in DOMAIN st.global_blocks
    THEN [st |-> [st EXCEPT !.global_blocks[hash] = @ + 1], res |-> "Ok"]
    ELSE LET st1 == backend_pin_block(st, hash, ok)
         IN IF ok
            THEN [st |-> [st1 EXCEPT !.global_blocks = Put(@, hash, 1)],
                  res |-> "Ok"]
            ELSE [st |-> st1, res |-> "Custom"]

\* global_unregister_block forgetting the backend: the last reference goes
\* but the block stays pinned.
global_unregister_block_keeps_pin(st, hash) ==
    IF hash \in DOMAIN st.global_blocks
    THEN IF st.global_blocks[hash] = 1
         THEN [st EXCEPT !.global_blocks = Remove(@, hash)]
         ELSE [st EXCEPT !.global_blocks[hash] = @ - 1]
    ELSE st

global_unregister_block(st, hash) ==
    IF hash \in DOMAIN st.global_blocks
    THEN IF st.global_blocks[hash] = 1
         THEN [backend_unpin_block(st, hash) EXCEPT
                  !.global_blocks = Remove(@, hash)]
         ELSE [st EXCEPT !.global_blocks[hash] = @ - 1]
    ELSE st

\* The loop `for (hash, state) in sub.blocks.iter()` of remove_subscription.
RECURSIVE UnregisterLive(_, _, _)
UnregisterLive(st, blocks, todo) ==
    IF todo = {} THEN st
    ELSE LET h == CHOOSE x \in todo : TRUE
             st1 == IF ~was_unpinned(blocks[h].state_machine)
                    THEN global_unregister_block(st, h)
                    ELSE st
         IN UnregisterLive(st1, blocks, todo \ {h})

\* remove_subscription stopping and dropping the subscription without
\* releasing its blocks.
remove_subscription_keeping_blocks(st, sub_id) ==
    IF sub_id \notin DOMAIN st.subs
    THEN st
    ELSE stop([st EXCEPT !.subs = Remove(@, sub_id)], st.subs[sub_id]).st

remove_subscription(st, sub_id) ==
    IF sub_id \notin DOMAIN st.subs
    THEN st
    ELSE LET sub == st.subs[sub_id]
             st1 == [st EXCEPT !.subs = Remove(@, sub_id)]
             st2 == stop(st1, sub).st
         IN UnregisterLive(st2, sub.blocks, DOMAIN sub.blocks)

\* The loops `for sub_id in to_remove { self.remove_subscription(&sub_id) }`.
RECURSIVE RemoveEach(_, _)
RemoveEach(st, to_remove) ==
    IF to_remove = {} THEN st
    ELSE LET s == CHOOSE x \in to_remove : TRUE
         IN RemoveEach(remove_subscription(st, s), to_remove \ {s})

\* stop_all_subscriptions stopping and dropping the subscriptions without
\* releasing their blocks.
stop_all_subscriptions_keeping_blocks(st) ==
    [st EXCEPT !.subs = EmptyMap,
               !.rx_stop = [a \in DOMAIN @ |->
                              IF \E s \in DOMAIN st.subs : st.subs[s].arc = a
                              THEN 1 ELSE @[a]]]

stop_all_subscriptions(st) == RemoveEach(st, DOMAIN st.subs)

\* Pass 1 of ensure_block_space for one subscription.  The clock read by
\* find_oldest_block_timestamp comes after the `now` of ensure_block_space:
\* for the subscriptions in `late` it has moved on in between.
should_remove(st, sub_id, late) ==
    LET t == IF sub_id \in late THEN st.now + 1 ELSE st.now
        sub_time == find_oldest_block_timestamp(st.subs[sub_id], t)
    IN IF sub_time > st.now             \* checked_duration_since is None
       THEN TRUE
       ELSE st.now - sub_time > local_max_pin_duration

\* ensure_block_space whose second pass terminates the requester alone.
ensure_block_space_requester_only(st, request_sub_id, late) ==
    IF Cardinality(DOMAIN st.global_blocks) < global_max_pinned_blocks
    THEN [st |-> st, res |-> FALSE]
    ELSE LET to_remove == {s \in DOMAIN st.subs : should_remove(st, s, late)}
             st1 == RemoveEach(st, to_remove)
             is_terminated == request_sub_id \in to_remove
         IN IF Cardinality(DOMAIN st1.global_blocks) < global_max_pinned_blocks
            THEN [st |-> st1, res |-> is_terminated]
            ELSE [st |-> remove_subscription(st1, request_sub_id), res |-> TRUE]

\* ensure_block_space comparing with <= : one block too many is let in.
ensure_block_space_off_by_one(st, request_sub_id, late) ==
    IF Cardinality(DOMAIN st.global_blocks) <= global_max_pinned_blocks
    THEN [st |-> st, res |-> FALSE]
    ELSE LET to_remove == {s \in DOMAIN st.subs : should_remove(st, s, late)}
             st1 == RemoveEach(st, to_remove)
             is_terminated == request_sub_id \in to_remove
         IN IF Cardinality(DOMAIN st1.global_blocks) <= global_max_pinned_blocks
            THEN [st |-> st1, res |-> is_terminated]
            ELSE [st |-> RemoveEach(st1, DOMAIN st1.subs),
                  res |-> is_terminated \/ request_sub_id \in DOMAIN st1.subs]

\* ensure_block_space without the second look at the cap: pass 2 follows
\* pass 1 whatever it freed.
ensure_block_space_no_recheck(st, request_sub_id, late) ==
    IF Cardinality(DOMAIN st.global_blocks) < global_max_pinned_blocks
    THEN [st |-> st, res |-> FALSE]
    ELSE LET to_remove == {s \in DOMAIN st.subs : should_remove(st, s, late)}
             st1 == RemoveEach(st, to_remove)
             is_terminated == request_sub_id \in to_remove
         IN [st |-> RemoveEach(st1, DOMAIN st1.subs),
             res |-> is_terminated \/ request_sub_id \in DOMAIN st1.subs]

ensure_block_space(st, request_sub_id, late) ==
    IF Cardinality(DOMAIN st.global_blocks) < global_max_pinned_blocks
    THEN [st |-> st, res |-> FALSE]
    ELSE LET to_remove == {s \in DOMAIN st.subs : should_remove(st, s, late)}
             st1 == RemoveEach(st, to_remove)
             is_terminated == request_sub_id \in to_remove
         IN IF Cardinality(DOMAIN st1.global_blocks) < global_max_pinned_blocks
            THEN [st |-> st1, res |-> is_terminated]
            ELSE [st |-> RemoveEach(st1, DOMAIN st1.subs),
                  res |-> is_terminated \/ request_sub_id \in DOMAIN st1.subs]

\* pin_block going on to pin whatever ensure_block_space reports.
pin_block_ignoring_eviction(st, sub_id, hash, ok, late) ==
    IF sub_id \notin DOMAIN st.subs
    THEN [st |-> st, res |-> "SubscriptionAbsent"]
    ELSE LET r == register_block(st.subs[sub_id], hash, st.now)
             st1 == [st EXCEPT !.subs[sub_id] = r.sub]
         IN IF ~r.res
            THEN [st |-> st1, res |-> "Ok(false)"]
            ELSE LET e == IF hash \notin DOMAIN st1.global_blocks
                          THEN ensure_block_space(st1, sub_id, late)
                          ELSE [st |-> st1, res |-> FALSE]
                     g == global_register_block(e.st, hash, ok)
                 IN IF g.res = "Ok"
                    THEN [st |-> g.st, res |-> "Ok(true)"]
                    ELSE [st |-> g.st, res |-> "Custom"]

pin_block(st, sub_id, hash, ok, late) ==
    IF sub_id \notin DOMAIN st.subs
    THEN [st |-> st, res |-> "SubscriptionAbsent"]
    ELSE LET r == register_block(st.subs[sub_id], hash, st.now)
             st1 == [st EXCEPT !.subs[sub_id] = r.sub]
         IN IF ~r.res
            THEN [st |-> st1, res |-> "Ok(false)"]
            ELSE LET e == IF hash \notin DOMAIN st1.global_blocks
                          THEN ensure_block_space(st1, sub_id, late)
                          ELSE [st |-> st1, res |-> FALSE]
                 IN IF e.res
                    THEN [st |-> e.st, res |-> "ExceededLimits"]
                    ELSE LET g == global_register_block(e.st, hash, ok)
                         IN IF g.res = "Ok"
                            THEN [st |-> g.st, res |-> "Ok(true)"]
                            ELSE [st |-> g.st, res |-> "Custom"]

\* ensure_hash_uniqueness: TRUE for Ok, FALSE for DuplicateHashes.
ensure_hash_uniqueness(hashes) ==
    \A i, j \in 1..Len(hashes) : hashes[i] = hashes[j] => i = j

RECURSIVE UnregisterBlocks(_, _, _)
UnregisterBlocks(sub, hashes, i) ==
    IF i > Len(hashes) THEN sub
    ELSE UnregisterBlocks(unregister_block(sub, hashes[i]).sub, hashes, i + 1)

RECURSIVE GlobalUnregisterBlocks(_, _, _)
GlobalUnregisterBlocks(st, hashes, i) ==
    IF i > Len(hashes) THEN st
    ELSE GlobalUnregisterBlocks(global_unregister_block(st, hashes[i]), hashes, i + 1)

\* unpin_blocks checking and unregistering hash by hash: the hashes before
\* the first miss are already released when the error is returned.
RECURSIVE UnpinEach(_, _, _, _)
UnpinEach(st, sub_id, hashes, i) ==
    IF i > Len(hashes) THEN [st |-> st, res |-> "Ok"]
    ELSE IF ~contains_block(st.subs[sub_id], hashes[i])
    THEN [st |-> st, res |-> "BlockHashAbsent"]
    ELSE LET st1 == [st EXCEPT !.subs[sub_id] = unregister_block(@, hashes[i]).sub]
         IN UnpinEach(global_unregister_block(st1, hashes[i]), sub_id, hashes, i + 1)

unpin_blocks_partial(st, sub_id, hashes) ==
    IF ~ensure_hash_uniqueness(hashes)
    THEN [st |-> st, res |-> "DuplicateHashes"]
    ELSE IF sub_id \notin DOMAIN st.subs
    THEN [st |-> st, res |-> "SubscriptionAbsent"]
    ELSE UnpinEach(st, sub_id, hashes, 1)

\* unpin_blocks working on the subscription only: the references of the
\* registry stay.
unpin_blocks_local_only(st, sub_id, hashes) ==
    IF ~ensure_hash_uniqueness(hashes)
    THEN [st |-> st, res |-> "DuplicateHashes"]
    ELSE IF sub_id \notin DOMAIN st.subs
    THEN [st |-> st, res |-> "SubscriptionAbsent"]
    ELSE IF \E i \in 1..Len(hashes) : ~contains_block(st.subs[sub_id], hashes[i])
    THEN [st |-> st, res |-> "BlockHashAbsent"]
    ELSE [st |-> [st EXCEPT !.subs[sub_id] = UnregisterBlocks(@, hashes, 1)],
          res |-> "Ok"]

unpin_blocks(st, sub_id, hashes) ==
    IF ~ensure_hash_uniqueness(hashes)
    THEN [st |-> st, res |-> "DuplicateHashes"]
    ELSE IF sub_id \notin DOMAIN st.subs
    THEN [st |-> st, res |-> "SubscriptionAbsent"]
    ELSE IF \E i \in 1..Len(hashes) : ~contains_block(st.subs[sub_id], hashes[i])
    THEN [st |-> st, res |-> "BlockHashAbsent"]
    ELSE LET st1 == [st EXCEPT !.subs[sub_id] = UnregisterBlocks(@, hashes, 1)]
         IN [st |-> GlobalUnregisterBlocks(st1, hashes, 1), res |-> "Ok"]

\* ------------------------------------------- LimitOperations, Operations
\* reserve_at_most handing out what was asked for, whatever is free.
reserve_at_most_unchecked(available, to_reserve) == to_reserve

\* The largest u32, the type try_acquire_many_owned takes its count in.
U32_MAX == 2^PermitBits - 1

\* reserve_at_most: the number of permits of the returned permit object,
\* 0 standing for None.  num_ops.try_into().ok()? gives up on a count that
\* does not fit u32; the acquire itself cannot fail under the lock.
reserve_at_most(available, to_reserve) ==
    LET num_ops == Min(available, to_reserve)
    IN IF num_ops = 0 THEN 0
       ELSE IF num_ops > U32_MAX THEN 0
       ELSE num_ops

\* Operations::next_operation_id renders the counter with to_string.
operation_id_string(n) == ToString(n)

\* register_operation numbering the operation by the size of the ledger, so
\* that the id of a finished operation is handed out again.
register_operation_reusing(st, sub_id, to_reserve) ==
    LET sub == st.subs[sub_id]
        permit == reserve_at_most(st.semaphore[sub.arc], to_reserve)
        id == operation_id_string(Cardinality(st.operations[sub.arc]))
    IN IF permit = 0
       THEN [st |-> st, op |-> [some |-> FALSE]]
       ELSE [st |-> [st EXCEPT !.semaphore[sub.arc] = @ - permit,
                               !.operations[sub.arc] = @ \cup {id}],
             op |-> [some |-> TRUE, operation_id |-> id, arc |-> sub.arc,
                     permit |-> permit]]

\* Operations::register_operation through SubscriptionState::register_operation.
\* op is the RegisteredOperation, with some = FALSE standing for None.
register_operation(st, sub_id, to_reserve) ==
    LET sub == st.subs[sub_id]
        permit == reserve_at_most(st.semaphore[sub.arc], to_reserve)
        id == operation_id_string(sub.next_operation_id)
    IN IF permit = 0
       THEN [st |-> st, op |-> [some |-> FALSE]]
       ELSE [st |-> [st EXCEPT !.semaphore[sub.arc] = @ - permit,
                               !.subs[sub_id].next_operation_id = @ + 1,
                               !.operations[sub.arc] = @ \cup {id}],
             op |-> [some |-> TRUE, operation_id |-> id, arc |-> sub.arc,
                     permit |-> permit]]

\* A RegisteredOperation whose drop leaves the permit acquired.
drop_RegisteredOperation_leak(st, op) ==
    [st EXCEPT !.operations[op.arc] = @ \ {op.operation_id}]

\* Drop for RegisteredOperation, then the drop of its _permit field.
drop_RegisteredOperation(st, op) ==
    [st EXCEPT !.operations[op.arc] = @ \ {op.operation_id},
               !.semaphore[op.arc] = @ + op.permit]

\* StopHandle::is_stopped: the receiver of the close channel lives in the
\* ledger entry, so the channel is closed once the entry is gone.
is_stopped(st, arc, operation_id) == operation_id \notin st.operations[arc]

\* A stop that closes nothing.
OperationState_stop_idle(st, arc, operation_id) == st

\* A stop that hands the permits of the operation back at once.
OperationState_stop_releasing(st, arc, operation_id) ==
    IF ~is_stopped(st, arc, operation_id)
    THEN [st EXCEPT !.operations[arc] = @ \ {operation_id},
                    !.semaphore[arc] = max_ongoing_operations]
    ELSE st

\* OperationState::stop
OperationState_stop(st, arc, operation_id) ==
    IF ~is_stopped(st, arc, operation_id)
    THEN [st EXCEPT !.operations[arc] = @ \ {operation_id}]
    ELSE st

\* Operations::get_operation through SubscriptionsInner::get_operation:
\* TRUE when an OperationState is returned.
get_operation(st, sub_id, id) ==
    IF sub_id \notin DOMAIN st.subs
    THEN FALSE
    ELSE id \in st.operations[st.subs[sub_id].arc]

\* ---------------------------------------------------------- BlockGuard
\* A guard relying on the pin of the registry instead of taking its own.
BlockGuard_new_no_pin(st, hash, with_runtime, operation, ok) ==
    LET g == [hash |-> hash, with_runtime |-> with_runtime,
              operation |-> operation]
    IN [st |-> [st EXCEPT !.guards = @ \cup {g}], res |-> "Ok"]

\* A guard construction that keeps the operation registered when the
\* backend refuses the pin.
BlockGuard_new_keeping_operation(st, hash, with_runtime, operation, ok) ==
    LET st1 == backend_pin_block(st, hash, ok)
    IN IF ok
       THEN LET g == [hash |-> hash, with_runtime |-> with_runtime,
                      operation |-> operation]
            IN [st |-> [st1 EXCEPT !.guards = @ \cup {g}], res |-> "Ok"]
       ELSE [st |-> st1, res |-> "Custom"]

BlockGuard_new(st, hash, with_runtime, operation, ok) ==
    LET st1 == backend_pin_block(st, hash, ok)
    IN IF ok
       THEN LET g == [hash |-> hash, with_runtime |-> with_runtime,
                      operation |-> operation]
            IN [st |-> [st1 EXCEPT !.guards = @ \cup {g}], res |-> "Ok"]
       ELSE [st |-> drop_RegisteredOperation(st1, operation), res |-> "Custom"]

\* Drop for BlockGuard, then the drop of its fields.
drop_BlockGuard(st, g) ==
    LET st1 == backend_unpin_block(st, g.hash)
        st2 == drop_RegisteredOperation(st1, g.operation)
    IN [st2 EXCEPT !.guards = @ \ {g}]

\* lock_block looking the block up in the global registry instead of the
\* subscription.
lock_block_any_holder(st, sub_id, hash, to_reserve, ok) ==
    IF sub_id \notin DOMAIN st.subs
    THEN [st |-> st, res |-> "SubscriptionAbsent"]
    ELSE IF hash \notin DOMAIN st.global_blocks
    THEN [st |-> st, res |-> "BlockHashAbsent"]
    ELSE LET r == register_operation(st, sub_id, to_reserve)
         IN IF ~r.op.some
            THEN [st |-> r.st, res |-> "ExceededLimits"]
            ELSE BlockGuard_new(r.st, hash, r.st.subs[sub_id].with_runtime,
                                r.op, ok)

lock_block(st, sub_id, hash, to_reserve, ok) ==
    IF sub_id \notin DOMAIN st.subs
    THEN [st |-> st, res |-> "SubscriptionAbsent"]
    ELSE IF ~contains_block(st.subs[sub_id], hash)
    THEN [st |-> st, res |-> "BlockHashAbsent"]
    ELSE LET r == register_operation(st, sub_id, to_reserve)
         IN IF ~r.op.some
            THEN [st |-> r.st, res |-> "ExceededLimits"]
            ELSE BlockGuard_new(r.st, hash, r.st.subs[sub_id].with_runtime,
                                r.op, ok)

\* The Operations objects alive: owned by a subscription, or shared with the
\* RegisteredOperation of a live guard.
ArcsInUse(st) ==
    {st.subs[s].arc : s \in DOMAIN st.subs} \cup {g.operation.arc : g \in st.guards}

\* The identity given to the object constructed for sub_id: the id and the
\* first number that no live object of that id carries.
NewArc(st, sub_id) ==
    CHOOSE a \in {sub_id} \X (1..(Cardinality(ArcsInUse(st)) + 1)) :
        /\ a \notin ArcsInUse(st)
        /\ \A k \in 1..(a[2] - 1) : <<sub_id, k>> \in ArcsInUse(st)

\* insert_subscription with HashMap::insert: a present id gets a new state.
insert_subscription_replacing(st, sub_id, with_runtime) ==
    LET arc == NewArc(st, sub_id)
        state == [with_runtime |-> with_runtime, tx_stop |-> TRUE,
                  next_operation_id |-> 0, arc |-> arc,
                  blocks |-> EmptyMap]
    IN [st |-> [st EXCEPT !.subs = Put(@, sub_id, state),
                          !.semaphore = Put(@, arc, max_ongoing_operations),
                          !.operations = Put(@, arc, {}),
                          !.rx_stop = Put(@, arc, 0)],
        res |-> IF sub_id \in DOMAIN st.subs THEN "None" ELSE "Some"]

insert_subscription(st, sub_id, with_runtime) ==
    IF sub_id \notin DOMAIN st.subs
    THEN LET arc == NewArc(st, sub_id)
             state == [with_runtime |-> with_runtime, tx_stop |-> TRUE,
                       next_operation_id |-> 0, arc |-> arc,
                       blocks |-> EmptyMap]
         IN [st |-> [st EXCEPT !.subs = Put(@, sub_id, state),
                               !.semaphore = Put(@, arc, max_ongoing_operations),
                               !.operations = Put(@, arc, {}),
                               !.rx_stop = Put(@, arc, 0)],
             res |-> "Some"]
    ELSE [st |-> st, res |-> "None"]

\* ------------------------------------------------- reservation facade
\* A reservation is a record [connection, token, sub_id]: token tells the
\* reservations of a connection apart, sub_id is "" until the reservation
\* is populated.
ReservedBy(st, connection_id) ==
    {r \in st.reservations : r.connection = connection_id}

NewToken(st, connection_id) ==
    CHOOSE k \in 1..(Cardinality(ReservedBy(st, connection_id)) + 1) :
        \A r \in ReservedBy(st, connection_id) : r.token # k

\* A reserve_subscription that asks no quota.
reserve_subscription_unbounded(st, connection_id) ==
    LET r == [connection |-> connection_id,
              token |-> NewToken(st, connection_id), sub_id |-> ""]
    IN [st |-> [st EXCEPT !.reservations = @ \cup {r}], res |-> "Some"]

\* reserve_subscription: none when the quota of the connection is used up.
reserve_subscription(st, connection_id) ==
    IF Cardinality(ReservedBy(st, connection_id)) >= MaxSubsPerConnection
    THEN [st |-> st, res |-> "None"]
    ELSE LET r == [connection |-> connection_id,
                   token |-> NewToken(st, connection_id), sub_id |-> ""]
         IN [st |-> [st EXCEPT !.reservations = @ \cup {r}], res |-> "Some"]

\* Reserved.insert_subscription: the insert into the registry; the
\* reservation is populated when it succeeds.
Reserved_insert_subscription(st, r, sub_id, with_runtime) ==
    LET i == insert_subscription(st, sub_id, with_runtime)
    IN IF i.res = "Some"
       THEN [st |-> [i.st EXCEPT !.reservations =
                        (@ \ {r}) \cup {[r EXCEPT !.sub_id = sub_id]}],
             res |-> "Some"]
       ELSE [st |-> i.st, res |-> "None"]

\* Drop of a reservation: the slot goes back, and a populated reservation
\* takes its subscription out of the registry.
drop_Reserved(st, r) ==
    LET st1 == [st EXCEPT !.reservations = @ \ {r}]
    IN IF r.sub_id = "" THEN st1 ELSE remove_subscription(st1, r.sub_id)

\* ---------------------------------------------------------- informant
max_blocks_to_track == MaxBlocksToTrack

\* The import notifications: hash, header number and parent hash, and
\* is_new_best.
Notifications ==
    [hash : ImportedHashes, number : 1..MaxNumber, parent_hash : ImportedHashes,
     is_new_best : BOOLEAN]

\* The answers of sp_blockchain::lowest_common_ancestor(client, last_hash,
\* n.hash): the last best block itself, another block, or an error.
Ancestors == {"last_hash", "other", "Err"}

Contains(q, x) == \E i \in 1..Len(q) : q[i] = x

\* The body of the loop with a deque that is never shortened.
display_block_import_unbounded(s, n, ancestor) ==
    LET reorg == /\ n.parent_hash # s.last_best.hash
                 /\ n.is_new_best
                 /\ ancestor = "other"
        best == IF n.is_new_best
                THEN [number |-> n.number, hash |-> n.hash]
                ELSE s.last_best
        fresh == ~Contains(s.last_blocks, n.hash)
    IN [last_best |-> best,
        last_blocks |-> IF fresh THEN Append(s.last_blocks, n.hash)
                        ELSE s.last_blocks,
        logged |-> (IF reorg THEN {"Reorg"} ELSE {})
                      \cup (IF fresh THEN {"Imported"} ELSE {})]

\* The body of the loop of display_block_import for the notification n, on
\* the informant state s = [last_best, last_blocks]: the new state and the
\* lines written with info!.
display_block_import(s, n, ancestor) ==
    LET reorg == /\ n.parent_hash # s.last_best.hash
                 /\ n.is_new_best
                 /\ ancestor = "other"
        best == IF n.is_new_best
                THEN [number |-> n.number, hash |-> n.hash]
                ELSE s.last_best
        fresh == ~Contains(s.last_blocks, n.hash)
        pushed == Append(s.last_blocks, n.hash)
    IN [last_best |-> best,
        last_blocks |-> IF fresh
                        THEN IF Len(pushed) > max_blocks_to_track
                             THEN Tail(pushed)
                             ELSE pushed
                        ELSE s.last_blocks,
        logged |-> (IF reorg THEN {"Reorg"} ELSE {})
                      \cup (IF fresh THEN {"Imported"} ELSE {})]

\* The informant before its first notification: last_best is the best block
\* of client.usage_info(), one of B.
InformantStart(B) ==
    /\ last_best \in B
    /\ last_blocks = <<>>
    /\ logged = {}

\* The best block of a chain at genesis.
Genesis == [number |-> 0, hash |-> "b1"]

\* ------------------------------------------------------------- actions
\* Init for a configuration: caps is the set of global_max_pinned_blocks
\* values, duration and ongoing the other two limits.
RegistryInit(caps, duration, ongoing) ==
    /\ global_blocks = EmptyMap
    /\ subs = EmptyMap
    /\ global_max_pinned_blocks \in caps
    /\ local_max_pin_duration = duration
    /\ max_ongoing_operations = ongoing
    /\ backend = [h \in Hashes |-> 0]
    /\ semaphore = EmptyMap
    /\ operations = EmptyMap
    /\ rx_stop = EmptyMap
    /\ guards = {}
    /\ awaiting = {}
    /\ reservations = {}
    /\ now = 0

InitWith(caps, duration, ongoing) ==
    /\ RegistryInit(caps, duration, ongoing)
    /\ InformantStart({Genesis})

\* The heap once a handler has returned: an Operations object is freed with
\* its last Arc (the subscription and the guards sharing it), and the
\* receiver of a stop channel goes with its subscription's object.
Live(st, f) == [a \in DOMAIN f \cap ArcsInUse(st) |-> f[a]]

\* The state after a handler returned st.
Return(st) ==
    /\ global_blocks' = st.global_blocks
    /\ subs' = st.subs
    /\ backend' = st.backend
    /\ semaphore' = Live(st, st.semaphore)
    /\ operations' = Live(st, st.operations)
    /\ rx_stop' = Live(st, st.rx_stop)
    /\ guards' = st.guards
    /\ awaiting' = st.awaiting
    /\ reservations' = st.reservations
    /\ now' = st.now
    /\ UNCHANGED config
    /\ UNCHANGED informant

\* Each call is an action; S and H are the subscription ids and the hashes
\* the callers use.
InsertSubscriptionOf(S, flags) ==
    \E sub_id \in S, with_runtime \in flags :
        /\ sub_id \in DOMAIN subs \/ Cardinality(ArcsInUse(Entry)) < MaxArcs
        /\ Return(insert_subscription(Entry, sub_id, with_runtime).st)

RemoveSubscriptionOf(S) ==
    \E sub_id \in S : Return(remove_subscription(Entry, sub_id))

StopAllSubscriptions == Return(stop_all_subscriptions(Entry))

\* The subscriptions whose find_oldest_block_timestamp returns its own
\* clock reading: those with no block (a block's timestamp is never later).
Blockless == {s \in DOMAIN subs : DOMAIN subs[s].blocks = {}}

PinBlockOf(S, H) ==
    \E sub_id \in S, hash \in H, ok \in BOOLEAN, late \in SUBSET Blockless :
        Return(pin_block(Entry, sub_id, hash, ok, late).st)

HashLists(H, maxLen) == UNION {[1..n -> H] : n \in 0..maxLen}

UnpinBlocksOf(S, H, maxLen) ==
    \E sub_id \in S, hashes \in HashLists(H, maxLen) :
        Return(unpin_blocks(Entry, sub_id, hashes).st)

\* reserve_at_most takes the minimum of to_reserve and the free permits, so
\* every to_reserve above max_ongoing_operations acts as the first of them.
Reserves == 0..(max_ongoing_operations + 1)

LockBlockOf(S, H) ==
    \E sub_id \in S, hash \in H, to_reserve \in Reserves, ok \in BOOLEAN :
        /\ sub_id \in DOMAIN subs => subs[sub_id].next_operation_id < MaxOperationId
        /\ Return(lock_block(Entry, sub_id, hash, to_reserve, ok).st)

\* get_operation changes nothing.  An OperationState it returned is stopped
\* here: the handle keeps the ledger it was cloned from, so it can be used
\* after the subscription is gone; stopping a stopped handle changes nothing.
StopOperation ==
    \E arc \in DOMAIN operations :
        \E id \in operations[arc] :
            Return(OperationState_stop(Entry, arc, id))

\* A method handler finishes (or is cancelled) and its guard is dropped.
DropBlockGuard ==
    \E g \in guards : Return(drop_BlockGuard(Entry, g))

\* A task holding the stop handle of a registered operation (from its
\* RegisteredOperation or from get_operation) starts to await stopped().
AwaitStopped ==
    \E g \in guards :
        /\ ~is_stopped(Entry, g.operation.arc, g.operation.operation_id)
        /\ Return([Entry EXCEPT !.awaiting =
                      @ \cup {<<g.operation.arc, g.operation.operation_id>>}])

\* Sender::closed() completes once the receiver kept in the ledger entry is
\* dropped: the awaiting task is woken and goes on.
WakeStopped ==
    \E w \in awaiting :
        /\ is_stopped(Entry, w[1], w[2])
        /\ Return([Entry EXCEPT !.awaiting = @ \ {w}])

ReserveSubscription ==
    \E connection_id \in Connections :
        Return(reserve_subscription(Entry, connection_id).st)

\* The handler populates its reservation with the id it generated: an id no
\* live reservation carries.
ReservedInsertSubscription ==
    \E r \in reservations, sub_id \in SubIds :
        /\ r.sub_id = ""
        /\ \A q \in reservations : q.sub_id # sub_id
        /\ sub_id \in DOMAIN subs \/ Cardinality(ArcsInUse(Entry)) < MaxArcs
        /\ Return(Reserved_insert_subscription(Entry, r, sub_id, TRUE).st)

DropReserved ==
    \E r \in reservations : Return(drop_Reserved(Entry, r))

\* The informant takes the next import notification off the stream.
ImportNotification ==
    \E n \in Notifications, ancestor \in Ancestors :
        LET r == display_block_import([last_best |-> last_best,
                                       last_blocks |-> last_blocks], n, ancestor)
        IN /\ last_best' = r.last_best
           /\ last_blocks' = r.last_blocks
           /\ logged' = r.logged
           /\ UNCHANGED <<registry, config>>

\* Time passes.
Tick ==
    /\ now < MaxTime
    /\ Return([Entry EXCEPT !.now = @ + 1])

\* ---- Spec: the registry under the clock: two subscriptions, two hashes,
\* every cap; no operation is registered.
Init == InitWith(Caps, PinDuration, MaxOngoing)
InsertSubscription == InsertSubscriptionOf(SubIds, RuntimeFlags)
RemoveSubscription == RemoveSubscriptionOf(SubIds)
PinBlock == PinBlockOf(SubIds, Hashes)
UnpinBlocks == UnpinBlocksOf(SubIds, Hashes, MaxUnpinLen)

Next ==
    \/ InsertSubscription
    \/ RemoveSubscription
    \/ StopAllSubscriptions
    \/ PinBlock
    \/ UnpinBlocks
    \/ Tick

Spec == Init /\ [][Next]_vars

\* ---- SpecGuards: the registry with block guards, at one instant: the
\* calls of Spec interleaved with lock_block, operation stops and guard
\* drops, under a cap of one block and one operation per subscription.  One
\* subscription follows one block and runs the methods on it; the other
\* pins and unpins every hash, that block included.
GuardsLimits == [global_max_pinned_blocks |-> 1, max_ongoing_operations |-> 1]
GuardsInit ==
    InitWith({GuardsLimits.global_max_pinned_blocks}, PinDuration,
             GuardsLimits.max_ongoing_operations)
GuardsPinBlock ==
    \/ PinBlockOf(OpsSubIds, OpsHashes)
    \/ PinBlockOf(SubIds \ OpsSubIds, Hashes)
GuardsUnpinBlocks ==
    \/ UnpinBlocksOf(OpsSubIds, OpsHashes, 1)
    \/ UnpinBlocksOf(SubIds \ OpsSubIds, Hashes, 1)
LockBlock == LockBlockOf(OpsSubIds, OpsHashes)

GuardsNext ==
    \/ InsertSubscription
    \/ RemoveSubscription
    \/ StopAllSubscriptions
    \/ GuardsPinBlock
    \/ GuardsUnpinBlocks
    \/ LockBlock
    \/ StopOperation
    \/ DropBlockGuard

SpecGuards == GuardsInit /\ [][GuardsNext]_vars

\* ---- SpecOps: the operations of one subscription on one hash, while the
\* subscription lives.
OpsLimits == [global_max_pinned_blocks |-> 1]
OpsInit == InitWith({OpsLimits.global_max_pinned_blocks}, PinDuration, MaxOngoing)
OpsInsertSubscription == InsertSubscriptionOf(OpsSubIds, BOOLEAN)
OpsPinBlock == PinBlockOf(OpsSubIds, OpsHashes)
OpsUnpinBlocks == UnpinBlocksOf(OpsSubIds, OpsHashes, 1)
OpsLockBlock == LockBlockOf(OpsSubIds, OpsHashes)

OpsNext ==
    \/ OpsInsertSubscription
    \/ OpsPinBlock
    \/ OpsUnpinBlocks
    \/ OpsLockBlock
    \/ StopOperation
    \/ DropBlockGuard

SpecOps == OpsInit /\ [][OpsNext]_vars

\* ---- SpecStop: SpecOps with the tasks that await the stop of an
\* operation; the runtime polls a woken task.
StopNext ==
    \/ OpsInsertSubscription
    \/ OpsPinBlock
    \/ OpsLockBlock
    \/ StopOperation
    \/ DropBlockGuard
    \/ AwaitStopped
    \/ WakeStopped

SpecStop == OpsInit /\ [][StopNext]_vars /\ WF_vars(WakeStopped)

\* ---- SpecReserved: the subscriptions made through reservations, on two
\* connections; they follow one block.
ReservedPinBlock == PinBlockOf(SubIds, OpsHashes)

ReservedNext ==
    \/ ReserveSubscription
    \/ ReservedInsertSubscription
    \/ DropReserved
    \/ ReservedPinBlock

SpecReserved == OpsInit /\ [][ReservedNext]_vars

\* ---- SpecInformant: the import loop of the informant, from any best
\* block the client reports.
InformantInit ==
    /\ RegistryInit({OpsLimits.global_max_pinned_blocks}, PinDuration, MaxOngoing)
    /\ InformantStart([number : 0..MaxNumber, hash : ImportedHashes])

InformantNext == ImportNotification

SpecInformant == InformantInit /\ [][InformantNext]_vars

\* ---- SpecLimiter: SpecOps with more permits than one acquire can count.
LimiterInit ==
    InitWith({OpsLimits.global_max_pinned_blocks}, PinDuration, U32_MAX + 1)

LimiterNext ==
    \/ OpsInsertSubscription
    \/ OpsPinBlock
    \/ OpsUnpinBlocks
    \/ OpsLockBlock
    \/ StopOperation
    \/ DropBlockGuard

SpecLimiter == LimiterInit /\ [][LimiterNext]_vars

\* ============================================================== claims
\* The subscriptions holding h: an entry for h that was not unpinned.
Holders(h) ==
    {s \in DOMAIN subs : /\ h \in DOMAIN subs[s].blocks
                         /\ ~was_unpinned(subs[s].blocks[h].state_machine)}

RefCount(h) == IF h \in DOMAIN global_blocks THEN global_blocks[h] ELSE 0

GuardsOn(h) == {g \in guards : g.hash = h}

RECURSIVE SumPermits(_)
SumPermits(gs) ==
    IF gs = {} THEN 0
    ELSE LET g == CHOOSE x \in gs : TRUE
         IN g.operation.permit + SumPermits(gs \ {g})

\* The permits held by the live guards of one Operations object.
PermitsHeld(arc) == SumPermits({g \in guards : g.operation.arc = arc})

\* C1: after every registry call, for every hash h the refcount
\* global_blocks[h] (0 when absent) equals the number of subscriptions that
\* have an entry for h that is not unpinned.
C1_RefcountEqualsHolders ==
    \A h \in Hashes : RefCount(h) = Cardinality(Holders(h))

\* C2: the outstanding backend pins of h are one if h is a key of
\* global_blocks (none otherwise), plus one for every live BlockGuard on h.
C2_BackendPinsBalanced ==
    \A h \in Hashes :
        backend[h] = (IF h \in DOMAIN global_blocks THEN 1 ELSE 0)
                     + Cardinality(GuardsOn(h))

\* A hash the registry pins with two guards alive on it, the first of them
\* from before its subscription was removed and inserted again.
C2_Witness ==
    \E h \in DOMAIN global_blocks :
        /\ Cardinality(GuardsOn(h)) = 2
        /\ backend[h] = 3

\* C3: after any pin_block call returns, with Ok or with an error, the
\* number of hashes in global_blocks is at most global_max_pinned_blocks,
\* for every cap including 0.
C3_CapRespected ==
    \A sub_id \in SubIds, hash \in Hashes, ok \in BOOLEAN, late \in SUBSET Blockless :
        Cardinality(DOMAIN pin_block(Entry, sub_id, hash, ok, late).st.global_blocks)
            <= global_max_pinned_blocks

\* The cap is reached and a subscription pins a fresh hash: the call evicts
\* and then pins.
C3_Witness ==
    \E sub_id \in DOMAIN subs, hash \in Hashes :
        /\ hash \notin DOMAIN global_blocks
        /\ Cardinality(DOMAIN global_blocks) = global_max_pinned_blocks
        /\ LET r == pin_block(Entry, sub_id, hash, TRUE, {})
           IN /\ r.res = "Ok(true)"
              /\ Cardinality(DOMAIN r.st.global_blocks) = global_max_pinned_blocks

\* C4: for every subscription, the permits held by its live registered
\* operations are at most max_ongoing_operations, and so are the operation
\* ids in its ledger.
C4_OperationsBounded ==
    \A arc \in DOMAIN semaphore :
        /\ PermitsHeld(arc) <= max_ongoing_operations
        /\ Cardinality(operations[arc]) <= max_ongoing_operations

\* A subscription with every permit held by two live operations.
C4_Witness ==
    \E sub_id \in DOMAIN subs :
        LET arc == subs[sub_id].arc
        IN /\ PermitsHeld(arc) = max_ongoing_operations
           /\ Cardinality(operations[arc]) = max_ongoing_operations
           /\ Cardinality({g \in guards : g.operation.arc = arc}) = 2

\* A handler entered in the state st another handler returned.
Reenter(st) == [st EXCEPT !.calls = NoCalls]

\* The guard that a successful lock_block returning st has created.
NewGuard(st) == CHOOSE g \in st.guards : g \notin guards

\* What the drop of a live guard g does, but for the permits it gives back:
\* backend.unpin_block(g.hash) is called once and no other backend call is
\* made, and the operation id is gone from the ledger.
DropUnpinsOnce(g) ==
    LET d == drop_BlockGuard(Entry, g)
    IN /\ d.calls.unpin = [h \in Hashes |-> IF h = g.hash THEN 1 ELSE 0]
       /\ d.calls.pin = NoCalls.pin
       /\ d.backend[g.hash] = backend[g.hash] - 1
       /\ g.operation.operation_id \notin d.operations[g.operation.arc]
       /\ g \notin d.guards

\* C5 as stated: dropping the guard of a successful lock_block(sub, h, n),
\* n >= 1, calls backend.unpin_block(h) exactly once, removes the operation
\* id from the ledger and releases exactly one operation permit.
C5_DropReleasesOnePermit ==
    \A g \in guards :
        /\ DropUnpinsOnce(g)
        /\ drop_BlockGuard(Entry, g).semaphore[g.operation.arc]
               = semaphore[g.operation.arc] + 1

\* C5 amended: the drop calls backend.unpin_block(h) exactly once, removes
\* the operation id from the ledger and releases the permits the guard
\* reserved, which are min(free permits, n) of its lock_block(sub, h, n):
\* one when n = 1, and the free permits are back to their value before the
\* lock_block when the guard is dropped next.
C5_DropReleasesReservedPermits ==
    /\ \A g \in guards :
          /\ DropUnpinsOnce(g)
          /\ g.operation.permit >= 1
          /\ drop_BlockGuard(Entry, g).semaphore[g.operation.arc]
                 = semaphore[g.operation.arc] + g.operation.permit
    /\ \A sub_id \in DOMAIN subs, hash \in Hashes, n \in Reserves \ {0} :
          LET r == lock_block(Entry, sub_id, hash, n, TRUE)
              arc == subs[sub_id].arc
          IN r.res = "Ok" =>
               LET g == NewGuard(r.st)
                   d == drop_BlockGuard(Reenter(r.st), g)
               IN /\ g.hash = hash
                  /\ g.operation.permit = Min(semaphore[arc], n)
                  /\ d.semaphore = semaphore
                  /\ d.backend = backend
                  /\ d.operations = operations
                  /\ d.calls.unpin[hash] = 1

\* A live guard holding two permits.
C5_Witness ==
    \E g \in guards :
        /\ g.operation.permit = 2
        /\ semaphore[g.operation.arc] = 0
        /\ drop_BlockGuard(Entry, g).semaphore[g.operation.arc] = 2

\* C6: while a BlockGuard for h is alive the backend holds at least one
\* outstanding pin of h, whatever registry calls ran in between.
C6_GuardKeepsBlockPinned ==
    \A g \in guards : backend[g.hash] >= 1

\* A guard that outlived its subscription and the registry's pin of its hash.
C6_Witness ==
    \E g \in guards :
        /\ g.hash \notin DOMAIN global_blocks
        /\ \A s \in DOMAIN subs : subs[s].arc # g.operation.arc
        /\ backend[g.hash] = 1

\* C7: pin_block on a hash the subscription has an entry for (Registered,
\* FullyRegistered or Unpinned) returns Ok(false), makes no backend call and
\* leaves global_blocks alone; an Unpinned entry is removed, the others are
\* kept and still held.
C7_SecondAnnouncement ==
    \A sub_id \in DOMAIN subs :
        \A hash \in DOMAIN subs[sub_id].blocks, ok \in BOOLEAN, late \in SUBSET Blockless :
            LET before == subs[sub_id].blocks[hash].state_machine
                r == pin_block(Entry, sub_id, hash, ok, late)
            IN /\ before \in {"Registered", "FullyRegistered", "Unpinned"}
               /\ r.res = "Ok(false)"
               /\ r.st.calls = NoCalls
               /\ r.st.backend = backend
               /\ r.st.global_blocks = global_blocks
               /\ DOMAIN r.st.subs = DOMAIN subs
               /\ IF before = "Unpinned"
                  THEN hash \notin DOMAIN r.st.subs[sub_id].blocks
                  ELSE /\ hash \in DOMAIN r.st.subs[sub_id].blocks
                       /\ r.st.subs[sub_id].blocks[hash].state_machine = "FullyRegistered"

\* The second announcement arrives after the unpin, the registry having
\* released the block.
C7_Witness ==
    \E sub_id \in DOMAIN subs :
        \E hash \in DOMAIN subs[sub_id].blocks :
            /\ subs[sub_id].blocks[hash].state_machine = "Unpinned"
            /\ hash \notin DOMAIN global_blocks
            /\ backend[hash] = 0
            /\ LET r == pin_block(Entry, sub_id, hash, TRUE, {})
               IN r.res = "Ok(false)" /\ hash \notin DOMAIN r.st.subs[sub_id].blocks

\* The registry as the claims compare it: subscriptions, refcounts, backend.
Registry(st) == <<st.subs, st.global_blocks, st.backend>>

HasEntry(st, sub_id, hash) ==
    sub_id \in DOMAIN st.subs /\ hash \in DOMAIN st.subs[sub_id].blocks

\* pin, pin, unpin and pin, unpin, pin of one hash by one subscription, the
\* first pin meeting the backend answer ok and the clock readings late.
PinPinUnpin(sub_id, hash, ok, late) ==
    LET a == pin_block(Entry, sub_id, hash, ok, late).st
        b == pin_block(Reenter(a), sub_id, hash, TRUE, {}).st
    IN unpin_blocks(Reenter(b), sub_id, <<hash>>).st

PinUnpinPin(sub_id, hash, ok, late) ==
    LET a == pin_block(Entry, sub_id, hash, ok, late).st
        b == unpin_blocks(Reenter(a), sub_id, <<hash>>).st
    IN pin_block(Reenter(b), sub_id, hash, TRUE, {}).st

\* C8: from any state where the subscription has no entry for h, the
\* sequences (pin, pin, unpin) and (pin, unpin, pin) end in the same state:
\* no entry for h, the same global_blocks and the same backend pins.
C8_AnnouncementsCommute ==
    \A sub_id \in DOMAIN subs, hash \in Hashes, ok \in BOOLEAN, late \in SUBSET Blockless :
        hash \notin DOMAIN subs[sub_id].blocks =>
            LET x == PinPinUnpin(sub_id, hash, ok, late)
                y == PinUnpinPin(sub_id, hash, ok, late)
            IN /\ Registry(x) = Registry(y)
               /\ ~HasEntry(x, sub_id, hash)
               /\ ~HasEntry(y, sub_id, hash)

\* A subscription about to pin a hash that another subscription holds, its
\* three calls all taking effect.
C8_Witness ==
    \E sub_id \in DOMAIN subs, hash \in Hashes :
        /\ hash \notin DOMAIN subs[sub_id].blocks
        /\ RefCount(hash) = 1
        /\ pin_block(Entry, sub_id, hash, TRUE, {}).res = "Ok(true)"
        /\ PinUnpinPin(sub_id, hash, TRUE, {}).global_blocks[hash] = 1
        /\ sub_id \in DOMAIN PinPinUnpin(sub_id, hash, TRUE, {}).subs

\* C9: two successive unpin_blocks(sub, [h]) on a block the subscription
\* holds return Ok and then BlockHashAbsent, and the second call changes
\* neither global_blocks nor the backend pins (nor anything else).
C9_DoubleUnpinRejected ==
    \A sub_id \in DOMAIN subs, hash \in Hashes :
        contains_block(subs[sub_id], hash) =>
            LET r1 == unpin_blocks(Entry, sub_id, <<hash>>)
                r2 == unpin_blocks(Reenter(r1.st), sub_id, <<hash>>)
            IN /\ r1.res = "Ok"
               /\ r2.res = "BlockHashAbsent"
               /\ r2.st = Reenter(r1.st)

\* Two subscriptions hold h in state Registered, counted twice: the first
\* unpin of one of them leaves the count at one and its entry Unpinned.
C9_Witness ==
    \E sub_id \in DOMAIN subs, hash \in Hashes :
        /\ contains_block(subs[sub_id], hash)
        /\ subs[sub_id].blocks[hash].state_machine = "Registered"
        /\ RefCount(hash) = 2
        /\ unpin_blocks(Entry, sub_id, <<hash>>).st.global_blocks[hash] = 1

\* C10: unpin_blocks is all-or-nothing: it returns DuplicateHashes for a list
\* with a repeated hash, else SubscriptionAbsent for an unknown id, else
\* BlockHashAbsent when a listed hash is not contained, and whenever it
\* returns an error nothing has changed and no backend call was made.
C10_UnpinAllOrNothing ==
    \A sub_id \in SubIds, hashes \in HashLists(Hashes, MaxUnpinLen) :
        LET r == unpin_blocks(Entry, sub_id, hashes)
            dup == \E i, j \in 1..Len(hashes) : i # j /\ hashes[i] = hashes[j]
            miss == \E i \in 1..Len(hashes) : ~contains_block(subs[sub_id], hashes[i])
        IN /\ r.res = (IF dup THEN "DuplicateHashes"
                       ELSE IF sub_id \notin DOMAIN subs THEN "SubscriptionAbsent"
                       ELSE IF miss THEN "BlockHashAbsent"
                       ELSE "Ok")
           /\ r.res # "Ok" => r.st = Entry

\* A list whose first hash is held and whose second is not, and a list
\* repeating a held hash.
C10_Witness ==
    \E sub_id \in DOMAIN subs, h1, h2 \in Hashes :
        /\ contains_block(subs[sub_id], h1)
        /\ ~contains_block(subs[sub_id], h2)
        /\ unpin_blocks(Entry, sub_id, <<h1, h2>>).res = "BlockHashAbsent"
        /\ unpin_blocks(Entry, sub_id, <<h1, h1>>).res = "DuplicateHashes"

\* The registry as ensure_block_space finds it in pin_block(sub_id, hash):
\* register_block has added the entry of the new hash.
Announced(sub_id, hash) ==
    [Entry EXCEPT !.subs[sub_id] = register_block(@, hash, now).sub]

\* The subscriptions pass 1 of ensure_block_space terminates, and the
\* registry after it.
Stale(st, late) == {s \in DOMAIN st.subs : should_remove(st, s, late)}
AfterPass1(st, late) == RemoveEach(st, Stale(st, late))

\* pin_block(sub_id, hash) needs a fresh global pin and the cap is reached.
NeedsSpace(sub_id, hash) ==
    /\ sub_id \in DOMAIN subs
    /\ hash \notin DOMAIN subs[sub_id].blocks
    /\ hash \notin DOMAIN global_blocks
    /\ Cardinality(DOMAIN global_blocks) >= global_max_pinned_blocks

\* Pass 1 leaves the cap reached.
Pass1Fails(sub_id, hash, late) ==
    Cardinality(DOMAIN AfterPass1(Announced(sub_id, hash), late).global_blocks)
        >= global_max_pinned_blocks

\* The stop signal of every subscription of the current state is sent in st.
AllStopped(st) == \A s \in DOMAIN subs : st.rx_stop[subs[s].arc] = 1

\* Every call that looks the id up answers SubscriptionAbsent in st
\* (unpin_blocks checks its list for duplicates before the id: C10).
Gone(st, s) ==
    \A h \in Hashes :
        /\ pin_block(Reenter(st), s, h, TRUE, {}).res = "SubscriptionAbsent"
        /\ unpin_blocks(Reenter(st), s, <<h>>).res = "SubscriptionAbsent"
        /\ lock_block(Reenter(st), s, h, 1, TRUE).res = "SubscriptionAbsent"
        /\ ~get_operation(Reenter(st), s, operation_id_string(0))

\* C11: when pin_block needs a fresh global pin, the cap is reached and
\* pass 1 does not bring |global_blocks| below the cap, every subscription is
\* terminated, global_blocks is empty, pin_block returns ExceededLimits and
\* later calls on those ids return SubscriptionAbsent.
C11_EvictionOfLastResort ==
    \A sub_id \in SubIds, hash \in Hashes, ok \in BOOLEAN, late \in SUBSET Blockless :
        (NeedsSpace(sub_id, hash) /\ Pass1Fails(sub_id, hash, late)) =>
            LET r == pin_block(Entry, sub_id, hash, ok, late)
            IN /\ r.res = "ExceededLimits"
               /\ r.st.subs = EmptyMap
               /\ r.st.global_blocks = EmptyMap
               /\ AllStopped(r.st)
               /\ r.st.calls.pin = NoCalls.pin
               /\ \A s \in DOMAIN subs : Gone(r.st, s)

\* Two subscriptions, none of them stale, the cap reached by a block that
\* the other one holds: the pin of a fresh hash terminates both.
C11_Witness ==
    \E sub_id \in DOMAIN subs, hash \in Hashes :
        /\ NeedsSpace(sub_id, hash)
        /\ Cardinality(DOMAIN subs) = 2
        /\ global_blocks # EmptyMap
        /\ Stale(Announced(sub_id, hash), {}) = {}
        /\ pin_block(Entry, sub_id, hash, TRUE, {}).res = "ExceededLimits"
        /\ pin_block(Entry, sub_id, hash, TRUE, {}).st.subs = EmptyMap

\* A subscription of st with a block entry older than local_max_pin_duration.
Expired(st, s) ==
    \E h \in DOMAIN st.subs[s].blocks :
        st.now - st.subs[s].blocks[h].timestamp > local_max_pin_duration

\* The subscriptions of the current state holding h, among those in S.
HoldersIn(S, h) == {s \in S : contains_block(subs[s], h)}

\* What C12 says of pin_block(sub_id, hash) meeting the clock readings late.
OnlyStaleEvicted(sub_id, hash, ok, late) ==
    LET a == Announced(sub_id, hash)
        r == pin_block(Entry, sub_id, hash, ok, late)
        terminated == DOMAIN subs \ DOMAIN r.st.subs
    IN /\ terminated = {s \in DOMAIN subs : Expired(a, s)}
       /\ \A s \in DOMAIN r.st.subs \ {sub_id} :
             /\ r.st.subs[s] = subs[s]
             /\ \A h \in Hashes :
                   contains_block(subs[s], h) =>
                       /\ lock_block(Reenter(r.st), s, h, 1, TRUE).res = "Ok"
                       /\ (IF h \in DOMAIN r.st.global_blocks
                           THEN r.st.global_blocks[h] ELSE 0)
                              = RefCount(h) - Cardinality(HoldersIn(terminated, h))

\* C12: when the cap is reached and pass 1 frees space, exactly the
\* subscriptions with a block older than local_max_pin_duration are
\* terminated; the others survive with their blocks lockable, the refcount
\* of each hash they hold dropping by the terminated subscriptions that
\* held it.
C12_OnlyStaleEvicted ==
    \A sub_id \in SubIds, hash \in Hashes, ok \in BOOLEAN, late \in SUBSET Blockless :
        (NeedsSpace(sub_id, hash) /\ ~Pass1Fails(sub_id, hash, late)) =>
            OnlyStaleEvicted(sub_id, hash, ok, late)

\* C13: pin_block(sub, h) returns ExceededLimits if and only if the
\* requesting subscription was terminated during the call; the subscription
\* is then out of subs with its stop signal sent, and the call has neither
\* added h to global_blocks nor pinned it in the backend.
C13_ExceededLimitsIffTerminated ==
    \A sub_id \in SubIds, hash \in Hashes, ok \in BOOLEAN, late \in SUBSET Blockless :
        LET r == pin_block(Entry, sub_id, hash, ok, late)
            terminated == sub_id \in DOMAIN subs /\ sub_id \notin DOMAIN r.st.subs
        IN /\ r.res = "ExceededLimits" <=> terminated
           /\ terminated =>
                 /\ r.st.rx_stop[subs[sub_id].arc] = 1
                 /\ rx_stop[subs[sub_id].arc] = 0
                 /\ hash \notin DOMAIN r.st.global_blocks
                 /\ r.st.calls.pin = NoCalls.pin
                 /\ r.st.backend[hash] = backend[hash]

\* The requester holds the block that fills the cap for longer than the
\* pin duration and the other subscription is not stale: pass 1 frees the
\* space, the requester is turned away and the other one stays.
C13_Witness ==
    \E sub_id \in DOMAIN subs, hash \in Hashes :
        LET r == pin_block(Entry, sub_id, hash, TRUE, {})
        IN /\ NeedsSpace(sub_id, hash)
           /\ Expired(Entry, sub_id)
           /\ ~Pass1Fails(sub_id, hash, {})
           /\ r.res = "ExceededLimits"
           /\ DOMAIN r.st.subs = DOMAIN subs \ {sub_id}
           /\ DOMAIN r.st.subs # {}

RefCountIn(st, h) == IF h \in DOMAIN st.global_blocks THEN st.global_blocks[h] ELSE 0

\* What C14 says of remove_subscription(sub_id) on a subscription of subs.
RemovalReleasesHeld(sub_id) ==
    LET d == remove_subscription(Entry, sub_id)
        arc == subs[sub_id].arc
    IN /\ d.subs = Remove(subs, sub_id)
       /\ d.rx_stop = [rx_stop EXCEPT ![arc] = 1]
       /\ rx_stop[arc] = 0
       /\ \A h \in Hashes :
             LET held == contains_block(subs[sub_id], h)
                 last == held /\ Holders(h) = {sub_id}
             IN /\ RefCountIn(d, h) = RefCount(h) - (IF held THEN 1 ELSE 0)
                /\ held => (h \notin DOMAIN d.global_blocks <=> last)
                /\ d.calls.unpin[h] = (IF last THEN 1 ELSE 0)
                /\ d.backend[h] = backend[h] - (IF last THEN 1 ELSE 0)
                /\ d.calls.pin[h] = 0

\* C14: remove_subscription(sub) removes the subscription, sends its stop
\* signal and decrements global_blocks[h] by one for every hash the
\* subscription held, by nothing for those it had unpinned; a hash leaves
\* global_blocks and is unpinned in the backend exactly when no other
\* subscription holds it; for an absent id nothing changes.
C14_RemoveSubscription ==
    \A sub_id \in SubIds :
        IF sub_id \in DOMAIN subs
        THEN RemovalReleasesHeld(sub_id)
        ELSE remove_subscription(Entry, sub_id) = Entry

\* C15: after stop_all_subscriptions, subs and global_blocks are empty, the
\* registry holds no backend pin (the pins left are those of the live
\* guards) and the stop signal of every subscription that existed is sent.
C15_StopAllSubscriptions ==
    LET d == stop_all_subscriptions(Entry)
    IN /\ d.subs = EmptyMap
       /\ d.global_blocks = EmptyMap
       /\ \A h \in Hashes : d.backend[h] = Cardinality(GuardsOn(h))
       /\ AllStopped(d)
       /\ d.calls.pin = NoCalls.pin

\* Two subscriptions share a block that a guard also pins: the registry's
\* pin goes, the guard's stays.
C15_Witness ==
    \E h \in DOMAIN global_blocks :
        /\ global_blocks[h] = 2
        /\ Cardinality(DOMAIN subs) = 2
        /\ GuardsOn(h) # {}
        /\ backend[h] = 2
        /\ stop_all_subscriptions(Entry).backend[h] = 1

\* The subscriptions of the current state that are gone in st.
Terminated(st) == DOMAIN subs \ DOMAIN st.subs

\* A handler that returned st has sent the stop signal of each subscription
\* it terminated, once, and of no other.
StoppedOnce(st) ==
    \A s \in DOMAIN subs :
        st.rx_stop[subs[s].arc] = (IF s \in Terminated(st) THEN 1 ELSE 0)

\* C16: the stop signal of a subscription is sent at most once, however
\* often stop() or the termination paths run; remove_subscription, the
\* eviction of ensure_block_space and stop_all_subscriptions each send it;
\* rx_stop holds nothing before the first stop.
C16_StopSentOnce ==
    /\ \A s \in DOMAIN subs : subs[s].tx_stop /\ rx_stop[subs[s].arc] = 0
    /\ \A s \in DOMAIN subs :
          LET once == stop(Entry, subs[s])
              twice == stop(once.st, once.sub)
              d == remove_subscription(Entry, s)
              in_place == [once.st EXCEPT !.subs[s] = once.sub]
          IN /\ once.st.rx_stop[subs[s].arc] = 1
             /\ twice = once
             /\ Terminated(d) = {s} /\ StoppedOnce(d)
             /\ remove_subscription(d, s) = d
             /\ stop_all_subscriptions(d).rx_stop[subs[s].arc] = 1
             /\ remove_subscription(in_place, s).rx_stop[subs[s].arc] = 1
    /\ LET d == stop_all_subscriptions(Entry)
       IN Terminated(d) = DOMAIN subs /\ StoppedOnce(d)
    /\ \A sub_id \in SubIds, hash \in Hashes, ok \in BOOLEAN, late \in SUBSET Blockless :
          LET r == pin_block(Entry, sub_id, hash, ok, late).st
          IN /\ StoppedOnce(r)
             /\ StoppedOnce(stop_all_subscriptions(Reenter(r)))

\* Two subscriptions live and not stopped; the pin of one of them evicts
\* both, each signalled once.
C16_Witness ==
    /\ Cardinality(DOMAIN subs) = 2
    /\ \E sub_id \in DOMAIN subs, hash \in Hashes :
          LET r == pin_block(Entry, sub_id, hash, TRUE, {}).st
          IN /\ Terminated(r) = DOMAIN subs
             /\ \A s \in DOMAIN subs : r.rx_stop[subs[s].arc] = 1

\* The subscription has an entry for hash that it has not unpinned.
Tracks(sub_id, hash) ==
    /\ hash \in DOMAIN subs[sub_id].blocks
    /\ subs[sub_id].blocks[hash].state_machine \in {"Registered", "FullyRegistered"}

\* C17: lock_block(sub, h, n) returns a guard only if the subscription
\* exists and has an entry for h that is not unpinned; it returns
\* SubscriptionAbsent for an unknown or removed id, and BlockHashAbsent when
\* the subscription never pinned h or has unpinned it, whoever else holds h.
C17_LockBlockErrors ==
    \A sub_id \in SubIds, hash \in Hashes, n \in Reserves, ok \in BOOLEAN :
        LET r == lock_block(Entry, sub_id, hash, n, ok)
        IN IF sub_id \notin DOMAIN subs
           THEN r.res = "SubscriptionAbsent" /\ r.st = Entry
           ELSE IF ~Tracks(sub_id, hash)
           THEN r.res = "BlockHashAbsent" /\ r.st = Entry
           ELSE /\ r.res \in {"Ok", "ExceededLimits", "Custom"}
                /\ r.res = "Ok" <=> r.st.guards # guards
                /\ (n >= 1 /\ ok /\ semaphore[subs[sub_id].arc] >= 1) => r.res = "Ok"

\* The subscription has unpinned h, another subscription still holds it and
\* the block is pinned: no guard for the first, a guard for the other.
C17_Witness ==
    \E sub_id \in DOMAIN subs, other \in DOMAIN subs, hash \in DOMAIN global_blocks :
        /\ other # sub_id
        /\ hash \in DOMAIN subs[sub_id].blocks
        /\ subs[sub_id].blocks[hash].state_machine = "Unpinned"
        /\ Tracks(other, hash)
        /\ lock_block(Entry, sub_id, hash, 1, TRUE).res = "BlockHashAbsent"
        /\ lock_block(Entry, other, hash, 1, TRUE).res = "Ok"

\* C18: reserve_at_most(n) with a free permits returns none when
\* min(a, n) = 0 and otherwise a permit of exactly k = min(a, n), leaving
\* a - k free; the drop returns k, so the free permits plus those held by
\* live permit objects always equal max_operations.
C18_ReserveAtMost ==
    /\ \A arc \in DOMAIN semaphore :
          semaphore[arc] + PermitsHeld(arc) = max_ongoing_operations
    /\ \A sub_id \in DOMAIN subs, n \in Reserves :
          LET a == semaphore[subs[sub_id].arc]
              k == Min(a, n)
              r == register_operation(Entry, sub_id, n)
          IN /\ reserve_at_most(a, n) = k
             /\ r.op.some <=> k # 0
             /\ r.st.semaphore[subs[sub_id].arc] = a - k
             /\ r.op.some =>
                   /\ r.op.permit = k
                   /\ drop_RegisteredOperation(r.st, r.op).semaphore = semaphore

\* The block entries of the registry: <<subscription, hash, state>>.
Entries ==
    UNION {{<<s, h, subs[s].blocks[h].state_machine>> : h \in DOMAIN subs[s].blocks} :
              s \in DOMAIN subs}

\* The state of the entry for h in the subscription record sub, FullyUnpinned
\* once the entry is removed.
StateIn(sub, h) ==
    IF h \in DOMAIN sub.blocks THEN sub.blocks[h].state_machine ELSE "FullyUnpinned"

\* C19: the block state machine starts in Registered; register takes
\* Registered to FullyRegistered and Unpinned to FullyUnpinned, unpin takes
\* Registered to Unpinned and FullyRegistered to FullyUnpinned, every other
\* pair leaves the state unchanged; was_unpinned holds exactly in Unpinned
\* and FullyUnpinned, which no transition leaves, and FullyUnpinned is
\* absorbing.  The entries of the registry move by these transitions.
C19_TransitionTable ==
    /\ BlockStateMachine_new = "Registered"
    /\ \A s \in BlockStates :
          /\ advance_register(s) = (IF s = "Registered" THEN "FullyRegistered"
                                    ELSE IF s = "Unpinned" THEN "FullyUnpinned"
                                    ELSE s)
          /\ advance_unpin(s) = (IF s = "Registered" THEN "Unpinned"
                                 ELSE IF s = "FullyRegistered" THEN "FullyUnpinned"
                                 ELSE s)
          /\ was_unpinned(s) <=> s \in {"Unpinned", "FullyUnpinned"}
          /\ was_unpinned(s) =>
                was_unpinned(advance_register(s)) /\ was_unpinned(advance_unpin(s))
    /\ advance_register("FullyUnpinned") = "FullyUnpinned"
    /\ advance_unpin("FullyUnpinned") = "FullyUnpinned"
    /\ \A e \in Entries :
          /\ e[3] \in {"Registered", "FullyRegistered", "Unpinned"}
          /\ StateIn(register_block(subs[e[1]], e[2], now).sub, e[2])
                = advance_register(e[3])
          /\ StateIn(unregister_block(subs[e[1]], e[2]).sub, e[2])
                = advance_unpin(e[3])
    /\ \A s \in DOMAIN subs :
          \A h \in Hashes \ DOMAIN subs[s].blocks :
              StateIn(register_block(subs[s], h, now).sub, h) = "Registered"

\* An entry announced twice is unpinned: it reaches FullyUnpinned and goes.
C19_Witness ==
    \E e \in Entries :
        /\ e[3] = "FullyRegistered"
        /\ ~was_unpinned(e[3])
        /\ was_unpinned(advance_unpin(e[3]))
        /\ e[2] \notin DOMAIN unregister_block(subs[e[1]], e[2]).sub.blocks

\* C20 as stated: advance_register in FullyRegistered, Unpinned or
\* FullyUnpinned leaves the state unchanged, and so does advance_unpin in
\* Unpinned or FullyUnpinned; taken on the states the machine of a block
\* entry is in or moves to.
C20_RepeatedAdvanceNoOp ==
    \A e \in Entries :
        \A s \in {e[3], advance_register(e[3]), advance_unpin(e[3])} :
            /\ s \in {"FullyRegistered", "Unpinned", "FullyUnpinned"} =>
                   advance_register(s) = s
            /\ s \in {"Unpinned", "FullyUnpinned"} => advance_unpin(s) = s

\* C20 amended: advance_register leaves FullyRegistered and FullyUnpinned
\* unchanged and takes Unpinned to FullyUnpinned (the state stays unpinned);
\* advance_unpin leaves Unpinned and FullyUnpinned unchanged.  On the
\* entries of the registry: a further announcement of a FullyRegistered
\* block and a further unpin of an Unpinned block change nothing, the
\* announcement of an Unpinned block removes the entry.
C20_RepeatedAdvance ==
    /\ \A s \in {"FullyRegistered", "FullyUnpinned"} : advance_register(s) = s
    /\ advance_register("Unpinned") = "FullyUnpinned"
    /\ \A s \in {"Unpinned", "FullyUnpinned"} : advance_unpin(s) = s
    /\ \A e \in Entries :
          LET reg == register_block(subs[e[1]], e[2], now)
              unreg == unregister_block(subs[e[1]], e[2])
          IN /\ ~reg.res
             /\ e[3] = "FullyRegistered" => reg.sub = subs[e[1]]
             /\ e[3] = "Unpinned" =>
                   /\ e[2] \notin DOMAIN reg.sub.blocks
                   /\ unreg.sub = subs[e[1]] /\ ~unreg.res

\* A block unpinned after its first announcement, the only one of its
\* subscription: the second announcement takes it to FullyUnpinned and away.
C20_Witness ==
    \E e \in Entries :
        /\ e[3] = "Unpinned"
        /\ advance_register(e[3]) # e[3]
        /\ register_block(subs[e[1]], e[2], now).sub.blocks = EmptyMap

\* The stop handles a task can await: the operation ids of the Operations
\* objects of the subscriptions that register operations.
StopHandles ==
    (OpsSubIds \X (1..MaxArcs))
        \X {operation_id_string(n) : n \in 0..(MaxOperationId - 1)}

\* What stop() does on the operation of a live guard g that is registered.
StopClosesOperation(g) ==
    LET arc == g.operation.arc
        id == g.operation.operation_id
        d == OperationState_stop(Entry, arc, id)
        dropped == drop_BlockGuard(Entry, g)
    IN /\ id \in operations[arc] =>
             /\ d = [Entry EXCEPT !.operations[arc] = @ \ {id}]
             /\ is_stopped(d, arc, id)
             /\ \A s \in DOMAIN subs :
                   subs[s].arc = arc => ~get_operation(d, s, id)
             /\ OperationState_stop(d, arc, id) = d
       /\ id \notin operations[arc] =>
             /\ is_stopped(Entry, arc, id)
             /\ OperationState_stop(Entry, arc, id) = Entry
       /\ is_stopped(dropped, arc, id)
       /\ OperationState_stop(dropped, arc, id) = dropped

\* C21: stop() on a registered operation removes its id from the ledger
\* (get_operation returns none) and closes the stop channel for every clone
\* of the handle; every task awaiting stopped() is eventually woken; a
\* further stop(), or a stop() after the guard was dropped, changes nothing.
C21_StopWakesAwaiters ==
    /\ [](\A g \in guards : StopClosesOperation(g))
    /\ \A w \in StopHandles :
          (w \in awaiting /\ w[1] \in DOMAIN operations /\ w[2] \notin operations[w[1]])
              ~> (w \notin awaiting)

\* An operation was stopped while its guard lives, and a task that awaits
\* its stop has not run yet.
C21_Witness ==
    \E g \in guards :
        /\ g.operation.operation_id \notin operations[g.operation.arc]
        /\ <<g.operation.arc, g.operation.operation_id>> \in awaiting

\* The ids the Operations object of a subscription has handed out so far.
IssuedIds(sub) == {operation_id_string(n) : n \in 0..(sub.next_operation_id - 1)}

\* C22: the operation ids of a subscription are the decimal strings of a
\* counter that starts at 0 and only grows: every registered operation has
\* an id of its own, also after earlier operations were dropped or stopped,
\* and an id is consumed when lock_block fails at the backend pin.
C22_OperationIdsUnique ==
    /\ \A m, n \in 0..(MaxOperationId + 1) :
          operation_id_string(m) = operation_id_string(n) => m = n
    /\ \A g1, g2 \in guards :
          (g1.operation.arc = g2.operation.arc
              /\ g1.operation.operation_id = g2.operation.operation_id) => g1 = g2
    /\ \A s \in DOMAIN subs :
          /\ operations[subs[s].arc] \subseteq IssuedIds(subs[s])
          /\ \A g \in guards :
                g.operation.arc = subs[s].arc =>
                    g.operation.operation_id \in IssuedIds(subs[s])
    /\ \A s \in SubIds \ DOMAIN subs :
          insert_subscription(Entry, s, TRUE).st.subs[s].next_operation_id = 0
    /\ \A s \in DOMAIN subs, h \in Hashes, n \in Reserves, ok \in BOOLEAN :
          LET r == lock_block(Entry, s, h, n, ok)
              next == subs[s].next_operation_id
              id == operation_id_string(next)
          IN /\ r.st.subs[s].next_operation_id
                    = (IF r.res \in {"Ok", "Custom"} THEN next + 1 ELSE next)
             /\ r.res = "Ok" =>
                   /\ NewGuard(r.st).operation.operation_id = id
                   /\ id \notin IssuedIds(subs[s])
                   /\ id \in r.st.operations[subs[s].arc]
             /\ r.res = "Custom" => ~ok /\ id \notin r.st.operations[subs[s].arc]

\* Operation 0 is finished, operation 1 runs: the next one is 2, also after
\* a lock_block that fails at the backend pin has taken an id.
C22_Witness ==
    \E s \in DOMAIN subs, h \in Hashes :
        /\ subs[s].next_operation_id = 2
        /\ operations[subs[s].arc] = {operation_id_string(1)}
        /\ LET r == lock_block(Entry, s, h, 1, FALSE)
           IN /\ r.res = "Custom"
              /\ r.st.subs[s].next_operation_id = 3
              /\ lock_block(Reenter(r.st), s, h, 1, TRUE).res = "Ok"

\* C23: insert_subscription with an id that is present returns none and
\* leaves the subscription as it is (blocks, operations, with_runtime, the
\* channels made with it) and sends no stop signal; with a fresh id it
\* returns the receivers and creates a subscription with no blocks and the
\* full operation capacity, touching nothing else.
C23_InsertSubscription ==
    \A s \in SubIds, w \in BOOLEAN :
        LET r == insert_subscription(Entry, s, w)
        IN IF s \in DOMAIN subs
           THEN r.res = "None" /\ r.st = Entry
           ELSE LET new == r.st.subs[s]
                IN /\ r.res = "Some"
                   /\ DOMAIN r.st.subs = DOMAIN subs \cup {s}
                   /\ \A t \in DOMAIN subs : r.st.subs[t] = subs[t]
                   /\ new.blocks = EmptyMap
                   /\ new.with_runtime = w
                   /\ new.tx_stop
                   /\ new.next_operation_id = 0
                   /\ new.arc \notin ArcsInUse(Entry)
                   /\ r.st.semaphore[new.arc] = max_ongoing_operations
                   /\ r.st.operations[new.arc] = {}
                   /\ r.st.rx_stop[new.arc] = 0
                   /\ \A a \in ArcsInUse(Entry) :
                         /\ r.st.semaphore[a] = semaphore[a]
                         /\ r.st.operations[a] = operations[a]
                         /\ r.st.rx_stop[a] = rx_stop[a]
                   /\ r.st.global_blocks = global_blocks
                   /\ r.st.backend = backend
                   /\ r.st.guards = guards
                   /\ r.st.calls = NoCalls

\* A subscription without runtime that holds a block and runs an operation
\* is inserted again, with runtime.
C23_Witness ==
    \E s \in DOMAIN subs :
        /\ ~subs[s].with_runtime
        /\ subs[s].blocks # EmptyMap
        /\ operations[subs[s].arc] # {}
        /\ semaphore[subs[s].arc] < max_ongoing_operations
        /\ insert_subscription(Entry, s, TRUE).res = "None"

\* C24: the live reservations of a connection, populated or not, never
\* exceed its quota: reserve_subscription returns none exactly when the
\* quota is used up, a reservation alone creates no subscription in the
\* registry, and the drop of a reservation gives the slot back, so that the
\* next reserve_subscription of the connection succeeds.
C24_ReservationQuota ==
    \A c \in Connections :
        LET held == Cardinality(ReservedBy(Entry, c))
            r == reserve_subscription(Entry, c)
        IN /\ held <= MaxSubsPerConnection
           /\ r.res = "None" <=> held = MaxSubsPerConnection
           /\ r.res = "None" => r.st = Entry
           /\ r.res = "Some" =>
                 /\ Cardinality(ReservedBy(r.st, c)) = held + 1
                 /\ \A q \in r.st.reservations \ reservations :
                       q.connection = c /\ q.sub_id = ""
                 /\ reservations \subseteq r.st.reservations
                 /\ [r.st EXCEPT !.reservations = reservations] = Entry
           /\ \A q \in ReservedBy(Entry, c) :
                 LET d == drop_Reserved(Entry, q)
                 IN /\ Cardinality(ReservedBy(d, c)) = held - 1
                    /\ reserve_subscription(Reenter(d), c).res = "Some"

\* A connection with its quota used by one populated and one unpopulated
\* reservation is refused a third one, while the registry has a single
\* subscription.
C24_Witness ==
    \E c \in Connections :
        /\ Cardinality(ReservedBy(Entry, c)) = MaxSubsPerConnection
        /\ \E q \in ReservedBy(Entry, c) : q.sub_id = ""
        /\ \E q \in ReservedBy(Entry, c) : q.sub_id \in DOMAIN subs
        /\ Cardinality(DOMAIN subs) = 1
        /\ reserve_subscription(Entry, c).res = "None"

\* C25: the drop of a populated reservation removes its subscription from
\* the registry, releasing its blocks as remove_subscription does, and
\* frees the slot of the connection; the other subscriptions stay.
C25_DropPopulatedReservation ==
    \A q \in reservations :
        q.sub_id \in DOMAIN subs =>
            LET d == drop_Reserved(Entry, q)
                sub == subs[q.sub_id]
            IN /\ d.subs = Remove(subs, q.sub_id)
               /\ d.rx_stop[sub.arc] = 1
               /\ d.reservations = reservations \ {q}
               /\ reserve_subscription(Reenter(d), q.connection).res = "Some"
               /\ \A h \in Hashes :
                     LET held == contains_block(sub, h) /\ h \in DOMAIN global_blocks
                         last == held /\ global_blocks[h] = 1
                     IN /\ RefCountIn(d, h) = RefCount(h) - (IF held THEN 1 ELSE 0)
                        /\ d.backend[h] = backend[h] - (IF last THEN 1 ELSE 0)
                        /\ d.calls.unpin[h] = (IF last THEN 1 ELSE 0)

\* Two subscriptions of one connection hold the same block; the reservation
\* of one of them is dropped.
C25_Witness ==
    \E q1, q2 \in reservations, h \in DOMAIN global_blocks :
        /\ q1 # q2
        /\ q1.connection = q2.connection
        /\ q1.sub_id \in DOMAIN subs /\ q2.sub_id \in DOMAIN subs
        /\ global_blocks[h] = 2
        /\ drop_Reserved(Entry, q1).global_blocks[h] = 1
        /\ q2.sub_id \in DOMAIN drop_Reserved(Entry, q1).subs

C27_ExceededLimitsOnlyWithoutPermits ==
    \A sub_id \in DOMAIN subs, hash \in Hashes, to_reserve \in Reserves, ok \in BOOLEAN :
        (/\ contains_block(subs[sub_id], hash)
         /\ lock_block(Entry, sub_id, hash, to_reserve, ok).res = "ExceededLimits")
            => semaphore[subs[sub_id].arc] = 0

\* The block states of every subscription.
BlocksOf(st) == [s \in DOMAIN st.subs |-> st.subs[s].blocks]

\* C28: when lock_block returns an error, Custom from the backend pin of the
\* guard construction included, the free permits and the ledger of the
\* subscription are as before the call, no backend pin is left for the
\* failed guard, and global_blocks and the block states are unchanged.
C28_LockBlockErrorsRestore ==
    \A sub_id \in SubIds, hash \in Hashes, to_reserve \in Reserves, ok \in BOOLEAN :
        LET r == lock_block(Entry, sub_id, hash, to_reserve, ok)
        IN r.res # "Ok" =>
              /\ r.st.semaphore = semaphore
              /\ r.st.operations = operations
              /\ r.st.guards = guards
              /\ r.st.backend = backend
              /\ r.st.global_blocks = global_blocks
              /\ DOMAIN r.st.subs = DOMAIN subs
              /\ BlocksOf(r.st) = BlocksOf(Entry)
              /\ r.res = "Custom" <=> r.st.calls.pin[hash] = 1
              /\ \A h \in Hashes : r.st.calls.unpin[h] = 0

\* A subscription with one operation running asks for a second guard and the
\* backend refuses the pin.
C28_Witness ==
    \E sub_id \in DOMAIN subs, hash \in Hashes, to_reserve \in Reserves :
        /\ operations[subs[sub_id].arc] # {}
        /\ semaphore[subs[sub_id].arc] > 0
        /\ to_reserve > 0
        /\ lock_block(Entry, sub_id, hash, to_reserve, FALSE).res = "Custom"

\* The range of a list of hashes.
Listed(hashes) == {hashes[i] : i \in 1..Len(hashes)}

\* C29: a successful unpin_blocks(sub, hashes) leaves every listed hash not
\* contained by the subscription (the entry Unpinned, or removed when it was
\* FullyRegistered), takes exactly one from global_blocks[h] for each listed
\* h, removing h with one backend.unpin_block(h) exactly when the count was
\* 1, and leaves alone the hashes not listed, the block states of the other
\* subscriptions and the operations of the subscription.
C29_UnpinBlocksEffect ==
    \A sub_id \in DOMAIN subs, hashes \in HashLists(Hashes, MaxUnpinLen) :
        LET r == unpin_blocks(Entry, sub_id, hashes)
            before == subs[sub_id]
            after == r.st.subs[sub_id]
        IN r.res = "Ok" =>
              /\ \A h \in Listed(hashes) :
                    /\ ~contains_block(after, h)
                    /\ before.blocks[h].state_machine = "Registered" =>
                          /\ h \in DOMAIN after.blocks
                          /\ after.blocks[h].state_machine = "Unpinned"
                    /\ before.blocks[h].state_machine = "FullyRegistered" =>
                          h \notin DOMAIN after.blocks
                    /\ RefCount(h) >= 1
                    /\ RefCountIn(r.st, h) = RefCount(h) - 1
                    /\ r.st.calls.unpin[h] = (IF RefCount(h) = 1 THEN 1 ELSE 0)
                    /\ r.st.backend[h] = backend[h] - (IF RefCount(h) = 1 THEN 1 ELSE 0)
              /\ \A h \in Hashes \ Listed(hashes) :
                    /\ RefCountIn(r.st, h) = RefCount(h)
                    /\ r.st.calls.unpin[h] = 0
                    /\ r.st.backend[h] = backend[h]
                    /\ h \in DOMAIN after.blocks <=> h \in DOMAIN before.blocks
                    /\ h \in DOMAIN before.blocks => after.blocks[h] = before.blocks[h]
              /\ DOMAIN r.st.subs = DOMAIN subs
              /\ \A s \in DOMAIN subs \ {sub_id} : r.st.subs[s] = subs[s]
              /\ [after EXCEPT !.blocks = before.blocks] = before
              /\ r.st.semaphore = semaphore
              /\ r.st.operations = operations
              /\ r.st.guards = guards

\* C30: when backend.pin_block fails during pin_block(sub, h) the call
\* returns Custom and leaves the registry as before: global_blocks is
\* unchanged and the subscription does not track h, so contains_block(h) is
\* false, a later pin_block(sub, h) is again a first announcement, and a
\* later unpin_blocks(sub, [h]) or remove_subscription(sub) takes no
\* reference of h that another subscription contributed.
C30_FailedPinLeavesRegistry ==
    \A sub_id \in DOMAIN subs, hash \in Hashes, late \in SUBSET Blockless :
        LET r == pin_block(Entry, sub_id, hash, FALSE, late)
            st1 == Reenter(r.st)
        IN (r.res = "Custom" /\ sub_id \in DOMAIN r.st.subs) =>
              /\ r.st.global_blocks = global_blocks
              /\ hash \notin DOMAIN r.st.subs[sub_id].blocks
              /\ ~contains_block(r.st.subs[sub_id], hash)
              /\ pin_block(st1, sub_id, hash, TRUE, {}).res # "Ok(false)"
              /\ RefCountIn(unpin_blocks(st1, sub_id, <<hash>>).st, hash) = RefCountIn(st1, hash)
              /\ RefCountIn(remove_subscription(st1, sub_id), hash) = RefCountIn(st1, hash)

\* The subscriptions of st with a block entry older than the pin duration,
\* and the registry once they are removed.
ExpiredSubs(st) == {s \in DOMAIN st.subs : Expired(st, s)}
WithoutExpired(st) == RemoveEach(st, ExpiredSubs(st))

C32_Pass1MarksOnlyExpired ==
    \A sub_id \in DOMAIN subs, hash \in Hashes, late \in SUBSET Blockless :
        hash \notin DOMAIN subs[sub_id].blocks =>
            LET a == Announced(sub_id, hash)
            IN \A s \in DOMAIN a.subs :
                  should_remove(a, s, late) =>
                      /\ Expired(a, s)
                      /\ DOMAIN a.subs[s].blocks # {}

\* The readings of the clock that find_oldest_block_timestamp can start from.
ClockReadings == {now, now + 1}

\* C33: find_oldest_block_timestamp returns the minimum timestamp over all
\* entries of the block map, the Unpinned entries that the client released
\* included; the timestamp of an entry is the time of its first
\* announcement and the second announcement does not refresh it; so pass 1
\* decides staleness on every entry still in the map.
C33_OldestOverAllEntries ==
    \A s \in DOMAIN subs :
        LET sub == subs[s]
        IN /\ DOMAIN sub.blocks # {} =>
                 \A t \in ClockReadings, late \in SUBSET Blockless :
                    LET oldest == find_oldest_block_timestamp(sub, t)
                    IN /\ \E h \in DOMAIN sub.blocks : sub.blocks[h].timestamp = oldest
                       /\ \A h \in DOMAIN sub.blocks : oldest <= sub.blocks[h].timestamp
                       /\ should_remove(Entry, s, late) <=> Expired(Entry, s)
           /\ \A h \in DOMAIN sub.blocks :
                 /\ sub.blocks[h].timestamp <= now
                 /\ LET r == register_block(sub, h, now).sub
                    IN h \in DOMAIN r.blocks =>
                          r.blocks[h].timestamp = sub.blocks[h].timestamp
           /\ \A h \in Hashes \ DOMAIN sub.blocks :
                 register_block(sub, h, now).sub.blocks[h].timestamp = now

\* A subscription that holds no block any more, its only entry being
\* Unpinned and older than the pin duration, is stale for pass 1; and an
\* entry announced a second time at a later time keeps its first timestamp.
C33_Witness ==
    /\ \E s \in DOMAIN subs :
          /\ DOMAIN subs[s].blocks # {}
          /\ \A h \in DOMAIN subs[s].blocks :
                subs[s].blocks[h].state_machine = "Unpinned"
          /\ should_remove(Entry, s, {})
    /\ \E s \in DOMAIN subs, h \in Hashes :
          /\ h \in DOMAIN subs[s].blocks
          /\ subs[s].blocks[h].state_machine = "Registered"
          /\ subs[s].blocks[h].timestamp < now
          /\ register_block(subs[s], h, now).sub.blocks[h].state_machine = "FullyRegistered"

\* C34: OperationState.stop() removes the ledger entry and returns no
\* capacity: the permits of the stopped operation stay held until its
\* RegisteredOperation (block guard) is dropped, so stop() leaves the
\* available permits as they are, and a lock_block that follows can still
\* be refused with ExceededLimits.
C34_StopKeepsPermits ==
    /\ \A arc \in DOMAIN semaphore :
          semaphore[arc] + PermitsHeld(arc) = max_ongoing_operations
    /\ \A g \in guards :
          LET arc == g.operation.arc
              id == g.operation.operation_id
              d == OperationState_stop(Entry, arc, id)
          IN /\ d.semaphore = semaphore
             /\ d.guards = guards
             /\ d.operations[arc] = operations[arc] \ {id}
             /\ drop_BlockGuard(d, g).semaphore[arc]
                   = semaphore[arc] + g.operation.permit
             /\ \A sub_id \in DOMAIN subs, hash \in Hashes, to_reserve \in Reserves :
                   (/\ subs[sub_id].arc = arc
                    /\ semaphore[arc] = 0
                    /\ contains_block(subs[sub_id], hash)) =>
                       lock_block(d, sub_id, hash, to_reserve, TRUE).res
                           = "ExceededLimits"

\* Every permit of a subscription is held by guards whose operations were
\* all stopped: the ledger is empty and lock_block is refused.
C34_Witness ==
    \E sub_id \in DOMAIN subs, hash \in Hashes :
        LET arc == subs[sub_id].arc
        IN /\ PermitsHeld(arc) = max_ongoing_operations
           /\ operations[arc] = {}
           /\ semaphore[arc] = 0
           /\ contains_block(subs[sub_id], hash)
           /\ lock_block(Entry, sub_id, hash, 1, TRUE).res = "ExceededLimits"

\* The registries in which the entry of sub_id for hash has just reached
\* FullyUnpinned after two announcements and one unpin: the unpin of a
\* FullyRegistered entry, or the second announcement of an Unpinned one.
Forgotten(sub_id, hash) ==
    IF hash \notin DOMAIN subs[sub_id].blocks
    THEN {}
    ELSE CASE subs[sub_id].blocks[hash].state_machine = "FullyRegistered" ->
                {Reenter(unpin_blocks(Entry, sub_id, <<hash>>).st)}
           [] subs[sub_id].blocks[hash].state_machine = "Unpinned" ->
                {Reenter(pin_block(Entry, sub_id, hash, TRUE, {}).st)}
           [] OTHER -> {}

BlocklessIn(st) == {s \in DOMAIN st.subs : DOMAIN st.subs[s].blocks = {}}

\* C35 as stated: once the entry for h reached FullyUnpinned and was
\* removed, a further pin_block(sub, h), the backend pinning, returns
\* Ok(true), creates a Registered entry and increments global_blocks[h].
C35_PinAfterFullyUnpinnedIsOk ==
    \A sub_id \in DOMAIN subs, hash \in Hashes :
        \A x \in Forgotten(sub_id, hash) :
            \A late \in SUBSET BlocklessIn(x) :
                LET r == pin_block(x, sub_id, hash, TRUE, late)
                IN /\ r.res = "Ok(true)"
                   /\ r.st.subs[sub_id].blocks[hash].state_machine = "Registered"
                   /\ RefCountIn(r.st, hash) = RefCountIn(x, hash) + 1

\* C35: once the entry for h reached FullyUnpinned and was removed, the
\* subscription keeps no memory of h and a further pin_block(sub, h) is a
\* first announcement: it never returns Ok(false); it goes through the cap
\* check, returning ExceededLimits exactly when that terminates the
\* subscription, and through the backend pin when h is not a key of
\* global_blocks, returning Custom when the backend refuses; otherwise it
\* returns Ok(true), creates a Registered entry stamped with the current
\* time and increments global_blocks[h], pinning h in the backend again
\* when it was absent.
C35_PinAfterFullyUnpinned ==
    \A sub_id \in DOMAIN subs, hash \in Hashes :
        \A x \in Forgotten(sub_id, hash) :
            /\ hash \notin DOMAIN x.subs[sub_id].blocks
            /\ \A ok \in BOOLEAN, late \in SUBSET BlocklessIn(x) :
                  LET r == pin_block(x, sub_id, hash, ok, late)
                      absent == hash \notin DOMAIN x.global_blocks
                      terminated == sub_id \notin DOMAIN r.st.subs
                  IN /\ r.res \in {"Ok(true)", "ExceededLimits", "Custom"}
                     /\ r.res = "ExceededLimits" <=> terminated
                     /\ terminated =>
                           Cardinality(DOMAIN x.global_blocks) >= global_max_pinned_blocks
                     /\ r.res = "Custom" <=> (~terminated /\ absent /\ ~ok)
                     /\ r.res = "Ok(true)" =>
                           /\ r.st.subs[sub_id].blocks[hash] =
                                 [state_machine |-> "Registered", timestamp |-> now]
                           /\ RefCountIn(r.st, hash) = RefCountIn(x, hash) + 1
                           /\ r.st.calls.pin[hash] = (IF absent THEN 1 ELSE 0)
                           /\ r.st.backend[hash] = x.backend[hash] + (IF absent THEN 1 ELSE 0)

\* A subscription forgot a block: pinned again it gets a Registered entry
\* and a backend pin, next to another subscription holding another block;
\* under a smaller cap the same pin ends with ExceededLimits.
C35_Witness ==
    \E sub_id \in DOMAIN subs, hash \in Hashes :
        \E x \in Forgotten(sub_id, hash) :
            LET r == pin_block(x, sub_id, hash, TRUE, {})
            IN /\ hash \notin DOMAIN x.global_blocks
               /\ x.global_blocks # EmptyMap
               /\ r.res = IF Cardinality(DOMAIN x.global_blocks) < global_max_pinned_blocks
                          THEN "Ok(true)" ELSE "ExceededLimits"
               /\ Cardinality(DOMAIN x.subs) = 2

\* The informant state the next notification meets.
Informant == [last_best |-> last_best, last_blocks |-> last_blocks]

\* C36: after any sequence of import notifications last_blocks holds at
\* most max_blocks_to_track hashes and none twice; an 'Imported' line is
\* logged for a notification exactly when its hash is not among the hashes
\* tracked, and then the hash is appended and the oldest tracked hash is
\* dropped once the length exceeds max_blocks_to_track; last_best is updated
\* exactly on notifications with is_new_best.
C36_ImportedOncePerTrackedHash ==
    /\ Len(last_blocks) <= max_blocks_to_track
    /\ \A i, j \in 1..Len(last_blocks) : last_blocks[i] = last_blocks[j] => i = j
    /\ \A n \in Notifications, ancestor \in Ancestors :
          LET r == display_block_import(Informant, n, ancestor)
              tracked == Contains(last_blocks, n.hash)
              full == Len(last_blocks) = max_blocks_to_track
          IN /\ "Imported" \in r.logged <=> ~tracked
             /\ tracked => r.last_blocks = last_blocks
             /\ (~tracked /\ ~full) => r.last_blocks = Append(last_blocks, n.hash)
             /\ (~tracked /\ full) =>
                   r.last_blocks = Append(Tail(last_blocks), n.hash)
             /\ r.last_best = (IF n.is_new_best
                               THEN [number |-> n.number, hash |-> n.hash]
                               ELSE last_best)

\* The deque is full and the last notification was logged; the next one
\* brings the hash that was dropped from the front before, and is logged
\* again, while a tracked hash is not.
C36_Witness ==
    /\ Len(last_blocks) = max_blocks_to_track
    /\ "Imported" \in logged
    /\ \E n \in Notifications :
          /\ ~Contains(last_blocks, n.hash)
          /\ ~n.is_new_best
          /\ display_block_import(Informant, n, "Err").last_blocks[1] = last_blocks[2]
          /\ "Imported" \in display_block_import(Informant, n, "Err").logged
    /\ \E n \in Notifications :
          /\ Contains(last_blocks, n.hash)
          /\ n.is_new_best
          /\ display_block_import(Informant, n, "Err").logged = {}
          /\ display_block_import(Informant, n, "Err").last_best.hash = n.hash

====
